---- MODULE Spec2Model ----
(***************************************************************************)
(* Model of the asynchronous command/transport layer of blender-mcp:       *)
(*   - ConnectionPool      (src/src/blendermcp/client/connection.py)       *)
(*   - BlenderMCPClient    (src/src/blendermcp/client/client.py)           *)
(*   - BatchManager        (src/src/blendermcp/client/batch.py)            *)
(* Each component owns its own state and has its own next-state relation   *)
(* and specification; the other components' variables stay unchanged.      *)
(***************************************************************************)
EXTENDS Integers, Sequences, FiniteSets, TLC

(***************************************************************************)
(* Bounds of the model.                                                    *)
(***************************************************************************)
NumCallers == 2
MaxCreated == 3
MaxCalls == 2
MaxAdds == 4
MaxDeps == 1
NumSenders == 2
MaxFaults == 1
MaxRegOps == 4
MaxOrderOps == 3
MaxOrderDeps == 2
MaxInbound == 3
MaxSrvMessages == 3

(***************************************************************************)
(* ConnectionPool configuration (constructor arguments).                   *)
(***************************************************************************)
max_size == 2
min_size == 2
max_lifetime == 1
max_idle_time == 0
retry_limit == 2

(***************************************************************************)
(* BatchManager configuration (constructor argument).                      *)
(***************************************************************************)
max_batch_size == 4

VARIABLES
  \* ---- ConnectionPool ----
  pool,        \* self._pool: insertion-ordered dict, as a sequence of ConnectionInfo
  nextConn,    \* identity of the next connection object connect() returns
  lockOwner,   \* task holding self._lock, or NoTask
  lockQueue,   \* FIFO of tasks waiting in self._lock.acquire()
  pc,          \* position of every task that uses the pool
  tries,       \* failed attempts of the _create_connection call in progress
  held,        \* per caller: connections get_connection returned and not yet released
  relArg,      \* per caller: argument of the release_connection call in progress
  expired,     \* _maintain_pool's local list `expired`
  startLeft,   \* remaining iterations of start()'s for loop
  \* ---- BlenderMCPClient.send_command / _handle_message ----
  response_futures, \* keys of self._response_futures
  futState,    \* per message id: state of its asyncio.Future
  cpc,         \* per send_command call: its position
  timedOut,    \* per call: wait_for's timeout has expired for it
  outcome,     \* per call: what the call delivered to its caller
  wire,        \* ids of requests written to the connection and not yet answered
  unhandled,   \* ids of frames _handle_message logged as unhandled
  received,    \* per call: the id of the frame its future was resolved with
  raised,      \* per call: type of the exception send_command raised
  command,     \* per call: the (command, params) it was called with
  ws_sent,     \* every message written to self.ws
  \* ---- BlenderMCPClient._send_command (the pool path) ----
  dpc,         \* position of the _send_command call
  dcommand,    \* the (command, params) it was called with
  dresult,     \* what it returned
  leased,      \* connections it holds from connection_pool.get_connection
  conn_sent,   \* every message it wrote to a pool connection
  start_attempts, \* connect() calls made by a start() that is running or has raised
  \* ---- BatchManager ----
  operations,  \* self._operations: insertion-ordered dict, as a sequence
  operation_counter, \* self._operation_counter
  running,     \* self._running
  bLockOwner,  \* task holding BatchManager._lock, or NoTask
  bLockQueue,  \* FIFO of tasks waiting for BatchManager._lock
  bpc,         \* position of every task that uses the BatchManager
  addResult,   \* per adder: the operation number its last add_operation returned
  flushResult, \* what the last completed flush() call returned or raised
  \* ---- IPC bridge (common/ipc.py, addon/request_listener.py) ----
  REQUEST_QUEUE,      \* envelopes put by send_request_to_blender, not yet taken
  RESPONSE_QUEUE,     \* envelopes put by the processing loop, not yet taken
  waiting_requests,   \* request id -> the sender whose (event, container) is stored
  event,              \* per sender: its threading.Event is set
  response_container, \* per sender: response_container.get("response", {})
  spc,                \* per sender: position in send_request_to_blender
  sreq,               \* per sender: the request it sent
  sret,               \* per sender: what send_request_to_blender returned
  lpc,                \* listener thread: position in handle_blender_response
  lresp,              \* listener thread: the response being handled
  unknown,            \* ids logged by "response for unknown request"
  processor_kind,     \* which processing loop runs on the executor side
  ppc,                \* processing loop: "off", "run" or "crashed"
  request,            \* the processing loop's local variable `request`
  faults,             \* queue operations that raised so far
  processed,          \* log: every envelope put on RESPONSE_QUEUE, with its cause
  listener_errors,    \* ids whose handle_blender_response raised (logged at line 80)
  \* ---- addon/request_listener.py: the websocket client inside Blender ----
  hpc,                \* the websocket thread: "off", "idle" or "drain" (in the on_message loop)
  host_sent,          \* every message written with ws.send, in order
  inbound,            \* websocket messages received so far
  \* ---- server/core.py: one connection of BlenderMCPServer._handle_client ----
  srv_pc,             \* "open" while the `async for` loop runs, then "closed"
  session_id,         \* the local variable session_id; 0 is None
  auth_sessions,      \* self.auth.sessions: session id -> [role, stale]
  next_session,       \* the next value of secrets.token_urlsafe
  srv_msgs,           \* messages handled so far
  srv_calls,          \* log: every handler invocation with the facts at that moment
  srv_last,           \* log: the message handled last and the response to it
  srv_authed,         \* log: an authenticate on this connection has succeeded
  srv_created,        \* log: the sessions created for this connection
  \* ---- ToolRegistry (client/tools.py) ----
  reg_tools,          \* self._tools: insertion-ordered dict name -> definition
  reg_categories,     \* self._categories: category -> list of tool names
  regOps,             \* register/unregister calls made so far
  lastOp              \* the last registry call and whether it repeated a definition

poolVars == <<pool, nextConn, lockOwner, lockQueue, pc, tries, held, relArg,
              expired, startLeft, start_attempts>>

sendVars == <<response_futures, futState, cpc, timedOut, outcome, wire, unhandled,
              received, raised, command, ws_sent>>

directVars == <<dpc, dcommand, dresult, leased, conn_sent>>

clientVars == <<sendVars, directVars>>

batchVars == <<operations, operation_counter, running, bLockOwner, bLockQueue, bpc,
               addResult, flushResult>>

ipcVars == <<REQUEST_QUEUE, RESPONSE_QUEUE, waiting_requests, event,
             response_container, spc, sreq, sret, lpc, lresp, unknown,
             processor_kind, ppc, request, faults, processed, listener_errors>>

regVars == <<reg_tools, reg_categories, regOps, lastOp>>

hostVars == <<hpc, host_sent, inbound>>

srvVars == <<srv_pc, session_id, auth_sessions, next_session, srv_msgs,
             srv_calls, srv_last, srv_authed, srv_created>>

vars == <<poolVars, clientVars, batchVars, ipcVars, regVars, hostVars, srvVars>>

notPoolVars == <<clientVars, batchVars, ipcVars, regVars, hostVars, srvVars>>
notClientVars == <<poolVars, batchVars, ipcVars, regVars, hostVars, srvVars>>
notBatchVars == <<poolVars, clientVars, ipcVars, regVars, hostVars, srvVars>>
notIpcVars == <<poolVars, clientVars, batchVars, regVars, hostVars, srvVars>>
notRegVars == <<poolVars, clientVars, batchVars, ipcVars, hostVars, srvVars>>
notHostVars == <<poolVars, clientVars, batchVars, regVars, srvVars>>
notSrvVars == <<poolVars, clientVars, batchVars, ipcVars, regVars, hostVars>>

(***************************************************************************)
(* Tasks                                                                   *)
(***************************************************************************)
Callers == 1..NumCallers
Caller(c) == <<"caller", c>>
StartTask == <<"start", 0>>
MaintTask == <<"maint", 0>>
StopTask == <<"stop", 0>>
NoTask == <<"none", 0>>
PoolTasks == {Caller(c) : c \in Callers} \cup {StartTask, MaintTask, StopTask}

(***************************************************************************)
(* asyncio.Lock: acquire takes a free lock at once, else queues FIFO;       *)
(* release wakes the first waiter, which then owns the lock.                *)
(***************************************************************************)
LockFree == lockOwner = NoTask /\ lockQueue = <<>>

Acquire(t) ==
  IF LockFree
    THEN lockOwner' = t /\ lockQueue' = lockQueue
    ELSE lockOwner' = lockOwner /\ lockQueue' = Append(lockQueue, t)

Hold(t) == lockOwner' = t /\ lockQueue' = lockQueue

Release ==
  IF lockQueue = <<>>
    THEN lockOwner' = NoTask /\ lockQueue' = lockQueue
    ELSE lockOwner' = Head(lockQueue) /\ lockQueue' = Tail(lockQueue)

(***************************************************************************)
(* Helpers on the pool dict                                                *)
(***************************************************************************)
\* ConnectionInfo: created_at and last_used are kept as the two differences the
\* code reads, age = now - created_at and idle = now - last_used, each counted
\* up to one tick beyond the limit it is compared with
ConnectionInfo(id, busy) ==
  [id |-> id, age |-> 0, idle |-> 0, is_busy |-> busy]

Min(a, b) == IF a < b THEN a ELSE b

\* datetime.now() one tick later
Aged(p) ==
  [i \in 1..Len(p) |->
     [p[i] EXCEPT !.age = Min(@ + 1, max_lifetime + 1),
                  !.idle = Min(@ + 1, max_idle_time + 1)]]

\* a scan that leaves out the `not info.is_busy` test
FirstIdleAnyMut(p) ==
  IF Len(p) = 0 THEN 0 ELSE 1

\* first index whose entry passes the `not info.is_busy` test, 0 if none
FirstIdle(p) ==
  IF \E i \in 1..Len(p) : ~p[i].is_busy
    THEN CHOOSE i \in 1..Len(p) :
           ~p[i].is_busy /\ \A j \in 1..(i-1) : p[j].is_busy
    ELSE 0

\* a get_connection that creates a connection whatever the size of the pool
BelowMaxNoLimitMut(p) == TRUE

\* `if len(self._pool) < self.max_size` of get_connection
BelowMax(p) == Len(p) < max_size

IndexOf(p, id) ==
  IF \E i \in 1..Len(p) : p[i].id = id
    THEN CHOOSE i \in 1..Len(p) : p[i].id = id
    ELSE 0

RemoveAt(p, i) == SubSeq(p, 1, i-1) \o SubSeq(p, i+1, Len(p))

\* a scan that only looks at the lifetime
IsExpiredLifetimeOnlyMut(info) == info.age > max_lifetime

\* the test of _maintain_pool's scan
IsExpired(info) ==
  \/ info.age > max_lifetime
  \/ (~info.is_busy /\ info.idle > max_idle_time)

RECURSIVE ExpiredIds(_)
ExpiredIds(p) ==
  IF p = <<>> THEN <<>>
  ELSE IF IsExpired(Head(p))
         THEN <<Head(p).id>> \o ExpiredIds(Tail(p))
         ELSE ExpiredIds(Tail(p))

Range(s) == {s[i] : i \in 1..Len(s)}

(***************************************************************************)
(* Init: the state after ConnectionPool.__init__                           *)
(***************************************************************************)
PoolInit ==
  /\ pool = <<>>
  /\ nextConn = 1
  /\ lockOwner = NoTask
  /\ lockQueue = <<>>
  /\ pc = [t \in PoolTasks |->
             IF t \in {StartTask, StopTask} THEN "init"
             ELSE IF t = MaintTask THEN "off" ELSE "idle"]
  /\ tries = 0
  /\ held = [c \in Callers |-> <<>>]
  /\ relArg = [c \in Callers |-> 0]
  /\ expired = <<>>
  /\ startLeft = 0
  /\ start_attempts = 0

\* the state after BlenderMCPClient.__init__ and connect()
ClientInit ==
  /\ response_futures = {}
  /\ futState = [k \in 1..MaxCalls |-> "none"]
  /\ cpc = [k \in 1..MaxCalls |-> "new"]
  /\ timedOut = [k \in 1..MaxCalls |-> FALSE]
  /\ outcome = [k \in 1..MaxCalls |-> "none"]
  /\ wire = {}
  /\ unhandled = {}
  /\ received = [k \in 1..MaxCalls |-> 0]
  /\ raised = [k \in 1..MaxCalls |-> "none"]
  /\ command = [k \in 1..MaxCalls |-> <<>>]
  /\ ws_sent = {}
  /\ dpc = "new"
  /\ dcommand = <<>>
  /\ dresult = [none |-> TRUE]
  /\ leased = 0
  /\ conn_sent = {}

(***************************************************************************)
(* BatchManager tasks and the state after BatchManager.__init__            *)
(***************************************************************************)
AdderTask == <<"adder", 0>>
FlusherTask == <<"flusher", 0>>
AutoTask == <<"auto", 0>>
StopperTask == <<"stopper", 0>>
BatchTasks == {AdderTask, FlusherTask, AutoTask, StopperTask}

NoResult == [kind |-> "none", order |-> <<>>, id |-> -1, ops |-> <<>>]

BatchIdle ==
  /\ running = FALSE
  /\ bLockOwner = NoTask
  /\ bLockQueue = <<>>
  /\ bpc = [t \in BatchTasks |-> IF t = AutoTask THEN "off" ELSE "idle"]
  /\ addResult = -1
  /\ flushResult = NoResult

BatchInit ==
  /\ operations = <<>>
  /\ operation_counter = 0
  /\ BatchIdle

(***************************************************************************)
(* IPC bridge: the state after init_queues(), before any thread is started *)
(***************************************************************************)
Senders == 1..NumSenders

NoRequest == [id |-> 0]
NoResponse == [none |-> TRUE]

IpcInit ==
  /\ REQUEST_QUEUE = <<>>
  /\ RESPONSE_QUEUE = <<>>
  /\ waiting_requests = [k \in {} |-> 0]
  /\ event = [s \in Senders |-> FALSE]
  /\ response_container = [s \in Senders |-> NoResponse]
  /\ spc = [s \in Senders |-> "idle"]
  /\ sreq = [s \in Senders |-> NoRequest]
  /\ sret = [s \in Senders |-> NoResponse]
  /\ lpc = "idle"
  /\ lresp = NoResponse
  /\ unknown = {}
  /\ processor_kind = "none"
  /\ ppc = "off"
  /\ request = NoRequest
  /\ faults = 0
  /\ processed = <<>>
  /\ listener_errors = {}
  \* request_listener.start() has not been called
  /\ hpc = "off"
  /\ host_sent = <<>>
  /\ inbound = 0

(***************************************************************************)
(* ToolRegistry with no tool registered                                    *)
(***************************************************************************)
NoOp == [kind |-> "none", name |-> "", category |-> "", same |-> FALSE]

RegInit ==
  /\ reg_tools = <<>>
  /\ reg_categories = [c \in {} |-> <<>>]
  /\ regOps = 0
  /\ lastOp = NoOp

(***************************************************************************)
(* BlenderMCPServer with a client that has just connected                  *)
(***************************************************************************)
NoLast == [command |-> "", success |-> FALSE, called |-> FALSE,
           before_auth |-> FALSE]

SrvInit ==
  /\ srv_pc = "open"
  /\ session_id = 0
  /\ auth_sessions = [k \in {} |-> 0]
  /\ next_session = 1
  /\ srv_msgs = 0
  /\ srv_calls = {}
  /\ srv_last = NoLast
  /\ srv_authed = FALSE
  /\ srv_created = {}

Init == PoolInit /\ ClientInit /\ BatchInit /\ IpcInit /\ RegInit /\ SrvInit

(***************************************************************************)
(* the clock                                                               *)
(***************************************************************************)
\* datetime.now() is read by the maintenance scan only (and stored by
\* get/release/create as "now"), so time is advanced while a scan is still to
\* come: the maintenance task sleeps or waits for the lock.
Tick ==
  /\ UNCHANGED notPoolVars
  /\ UNCHANGED start_attempts
  /\ pc[MaintTask] \in {"sleep", "m_lock"}
  /\ pool' = Aged(pool)
  /\ UNCHANGED <<nextConn, lockOwner, lockQueue, pc, tries, held, relArg,
                 expired, startLeft>>

(***************************************************************************)
(* ConnectionPool.start                                                    *)
(***************************************************************************)
\* one turn of `for _ in range(self.min_size)` with n turns left, or the end of
\* the loop, which leaves the lock and creates the maintenance task
StartLoopBody(n) ==
  /\ startLeft' = n
  /\ IF n > 0
       THEN /\ pc' = [pc EXCEPT ![StartTask] = "start_create"]
            /\ tries' = 0
            /\ Hold(StartTask)
       ELSE /\ pc' = [pc EXCEPT ![StartTask] = "started", ![MaintTask] = "sleep"]
            /\ Release
            /\ UNCHANGED tries
  /\ UNCHANGED <<pool, nextConn, held, relArg, expired>>

CallStart ==
  /\ UNCHANGED notPoolVars
  /\ UNCHANGED start_attempts
  /\ pc[StartTask] = "init"
  /\ IF LockFree
       THEN StartLoopBody(min_size)
       ELSE /\ pc' = [pc EXCEPT ![StartTask] = "start_lock"]
            /\ startLeft' = min_size
            /\ Acquire(StartTask)
            /\ UNCHANGED <<pool, nextConn, tries, held, relArg, expired>>

StartLoop ==
  /\ UNCHANGED notPoolVars
  /\ start_attempts' = IF startLeft = 0 THEN 0 ELSE start_attempts
  /\ pc[StartTask] = "start_lock"
  /\ lockOwner = StartTask
  /\ StartLoopBody(startLeft)

StartConnectOk ==
  /\ UNCHANGED notPoolVars
  /\ start_attempts' = start_attempts + 1
  /\ pc[StartTask] = "start_create"
  /\ nextConn <= MaxCreated
  /\ pool' = Append(pool, ConnectionInfo(nextConn, FALSE))
  /\ nextConn' = nextConn + 1
  /\ startLeft' = startLeft - 1
  /\ pc' = [pc EXCEPT ![StartTask] = "start_lock"]
  /\ UNCHANGED <<lockOwner, lockQueue, tries, held, relArg, expired>>

StartConnectFail ==
  /\ UNCHANGED notPoolVars
  /\ start_attempts' = start_attempts + 1
  /\ pc[StartTask] = "start_create"
  /\ IF tries + 1 < retry_limit
       THEN /\ tries' = tries + 1
            /\ UNCHANGED <<pc, lockOwner, lockQueue>>
       ELSE \* ConnectionError leaves start(): no maintenance task is created
            /\ tries' = 0
            /\ pc' = [pc EXCEPT ![StartTask] = "failed"]
            /\ Release
  /\ UNCHANGED <<pool, nextConn, held, relArg, expired, startLeft>>

(***************************************************************************)
(* ConnectionPool.get_connection                                           *)
(***************************************************************************)
\* mark pool[i] busy and return it to caller c, leaving `async with self._lock`
TakeIdle(c, i) ==
  /\ pool' = [pool EXCEPT ![i].is_busy = TRUE, ![i].idle = 0]
  /\ held' = [held EXCEPT ![c] = Append(@, pool[i].id)]
  /\ pc' = [pc EXCEPT ![Caller(c)] = "idle"]
  /\ Release

\* the body of get_connection up to its first suspension, inside the lock
GetBody(c) ==
  LET i == FirstIdle(pool) IN
    IF i # 0
      THEN /\ TakeIdle(c, i)
           /\ UNCHANGED <<nextConn, tries, relArg, expired, startLeft>>
    ELSE IF BelowMax(pool)
      THEN /\ pc' = [pc EXCEPT ![Caller(c)] = "get_create"]
           /\ tries' = 0
           /\ Hold(Caller(c))
           /\ UNCHANGED <<pool, nextConn, held, relArg, expired, startLeft>>
      ELSE \* `while True:` finds nothing idle and sleeps, still inside the lock
           /\ pc' = [pc EXCEPT ![Caller(c)] = "get_poll"]
           /\ Hold(Caller(c))
           /\ UNCHANGED <<pool, nextConn, tries, held, relArg, expired, startLeft>>

CallGet(c) ==
  /\ UNCHANGED notPoolVars
  /\ UNCHANGED start_attempts
  /\ pc[Caller(c)] = "idle"
  /\ IF LockFree
       THEN GetBody(c)
       ELSE /\ pc' = [pc EXCEPT ![Caller(c)] = "get_lock"]
            /\ Acquire(Caller(c))
            /\ UNCHANGED <<pool, nextConn, tries, held, relArg, expired, startLeft>>

GetScan(c) ==
  /\ UNCHANGED notPoolVars
  /\ UNCHANGED start_attempts
  /\ pc[Caller(c)] = "get_lock"
  /\ lockOwner = Caller(c)
  /\ GetBody(c)

GetConnectOk(c) ==
  /\ UNCHANGED notPoolVars
  /\ UNCHANGED start_attempts
  /\ pc[Caller(c)] = "get_create"
  /\ nextConn <= MaxCreated
  /\ pool' = Append(pool, ConnectionInfo(nextConn, TRUE))
  /\ nextConn' = nextConn + 1
  /\ held' = [held EXCEPT ![c] = Append(@, nextConn)]
  /\ pc' = [pc EXCEPT ![Caller(c)] = "idle"]
  /\ Release
  /\ UNCHANGED <<tries, relArg, expired, startLeft>>

GetConnectFail(c) ==
  /\ UNCHANGED notPoolVars
  /\ UNCHANGED start_attempts
  /\ pc[Caller(c)] = "get_create"
  /\ IF tries + 1 < retry_limit
       THEN /\ tries' = tries + 1
            /\ UNCHANGED <<pc, lockOwner, lockQueue>>
       ELSE \* ConnectionError propagates to the caller
            /\ tries' = 0
            /\ pc' = [pc EXCEPT ![Caller(c)] = "idle"]
            /\ Release
  /\ UNCHANGED <<pool, nextConn, held, relArg, expired, startLeft>>

\* one turn of the `while True:` loop after asyncio.sleep(0.1)
GetPoll(c) ==
  /\ UNCHANGED notPoolVars
  /\ UNCHANGED start_attempts
  /\ pc[Caller(c)] = "get_poll"
  /\ LET i == FirstIdle(pool) IN
       IF i # 0
         THEN /\ TakeIdle(c, i)
              /\ UNCHANGED <<nextConn, tries, relArg, expired, startLeft>>
         ELSE UNCHANGED poolVars

\* a release loop that, finding no entry for the connection, marks the first
\* entry of the pool idle
ReleaseLoopFirstEntryMut(p, connection) ==
  LET i == IndexOf(p, connection) IN
    IF i # 0 THEN [p EXCEPT ![i].is_busy = FALSE, ![i].idle = 0]
    ELSE IF p # <<>> THEN [p EXCEPT ![1].is_busy = FALSE, ![1].idle = 0]
    ELSE p

\* the loop of release_connection: the entry whose connection is the argument
\* is marked idle and its last_used is reset; no entry, nothing changes
ReleaseLoop(p, connection) ==
  LET i == IndexOf(p, connection) IN
    IF i # 0 THEN [p EXCEPT ![i].is_busy = FALSE, ![i].idle = 0] ELSE p

(***************************************************************************)
(* ConnectionPool.release_connection                                       *)
(***************************************************************************)
\* the body of release_connection(conn), inside the lock
ReleaseBody(c, conn) ==
  /\ pool' = ReleaseLoop(pool, conn)
  /\ relArg' = [relArg EXCEPT ![c] = 0]
  /\ pc' = [pc EXCEPT ![Caller(c)] = "idle"]
  /\ Release
  /\ UNCHANGED <<nextConn, tries, expired, startLeft>>

\* a caller releases one of the connections it holds
CallRelease(c) ==
  /\ UNCHANGED notPoolVars
  /\ UNCHANGED start_attempts
  /\ pc[Caller(c)] = "idle"
  /\ \E k \in 1..Len(held[c]) :
       /\ held' = [held EXCEPT ![c] = RemoveAt(@, k)]
       /\ IF LockFree
            THEN ReleaseBody(c, held[c][k])
            ELSE /\ relArg' = [relArg EXCEPT ![c] = held[c][k]]
                 /\ pc' = [pc EXCEPT ![Caller(c)] = "rel_lock"]
                 /\ Acquire(Caller(c))
                 /\ UNCHANGED <<pool, nextConn, tries, expired, startLeft>>

ReleaseResume(c) ==
  /\ UNCHANGED notPoolVars
  /\ UNCHANGED start_attempts
  /\ pc[Caller(c)] = "rel_lock"
  /\ lockOwner = Caller(c)
  /\ ReleaseBody(c, relArg[c])
  /\ UNCHANGED held

(***************************************************************************)
(* ConnectionPool._maintain_pool                                           *)
(***************************************************************************)
\* `now = datetime.now()` and the scan that fills `expired`, inside the lock
MaintScanBody ==
  /\ expired' = ExpiredIds(pool)
  /\ pc' = [pc EXCEPT ![MaintTask] = "m_close"]
  /\ Hold(MaintTask)
  /\ UNCHANGED <<pool, nextConn, tries, held, relArg, startLeft>>

\* asyncio.sleep(60) is over
MaintWake ==
  /\ UNCHANGED notPoolVars
  /\ UNCHANGED start_attempts
  /\ pc[MaintTask] = "sleep"
  /\ IF LockFree
       THEN MaintScanBody
       ELSE /\ pc' = [pc EXCEPT ![MaintTask] = "m_lock"]
            /\ Acquire(MaintTask)
            /\ UNCHANGED <<pool, nextConn, tries, held, relArg, expired, startLeft>>

MaintScan ==
  /\ UNCHANGED notPoolVars
  /\ UNCHANGED start_attempts
  /\ pc[MaintTask] = "m_lock"
  /\ lockOwner = MaintTask
  /\ MaintScanBody

MaintClose ==
  /\ UNCHANGED notPoolVars
  /\ UNCHANGED start_attempts
  /\ pc[MaintTask] = "m_close"
  /\ expired # <<>>
  /\ LET i == IndexOf(pool, Head(expired)) IN
       pool' = IF i # 0 THEN RemoveAt(pool, i) ELSE pool
  /\ expired' = Tail(expired)
  /\ UNCHANGED <<nextConn, lockOwner, lockQueue, pc, tries, held, relArg,
                 startLeft>>

\* `while len(self._pool) < self.min_size`
MaintRefill ==
  /\ UNCHANGED notPoolVars
  /\ UNCHANGED start_attempts
  /\ pc[MaintTask] = "m_close"
  /\ expired = <<>>
  /\ IF Len(pool) < min_size
       THEN /\ pc' = [pc EXCEPT ![MaintTask] = "m_create"]
            /\ tries' = 0
            /\ UNCHANGED <<lockOwner, lockQueue>>
       ELSE /\ pc' = [pc EXCEPT ![MaintTask] = "sleep"]
            /\ Release
            /\ UNCHANGED tries
  /\ UNCHANGED <<pool, nextConn, held, relArg, expired, startLeft>>

MaintConnectOk ==
  /\ UNCHANGED notPoolVars
  /\ UNCHANGED start_attempts
  /\ pc[MaintTask] = "m_create"
  /\ nextConn <= MaxCreated
  /\ pool' = Append(pool, ConnectionInfo(nextConn, FALSE))
  /\ nextConn' = nextConn + 1
  /\ pc' = [pc EXCEPT ![MaintTask] = "m_close"]
  /\ UNCHANGED <<lockOwner, lockQueue, tries, held, relArg, expired, startLeft>>

\* a maintenance task that an exception of a pass ends
MaintAfterFailureEndsMut == "failed"

\* `except Exception as e: logger.error(...)`: the while loop goes on with the
\* next sleep
MaintAfterFailure == "sleep"

MaintConnectFail ==
  /\ UNCHANGED notPoolVars
  /\ UNCHANGED start_attempts
  /\ pc[MaintTask] = "m_create"
  /\ IF tries + 1 < retry_limit
       THEN /\ tries' = tries + 1
            /\ UNCHANGED <<pc, lockOwner, lockQueue>>
       ELSE \* ConnectionError leaves `async with self._lock` and is caught
            /\ tries' = 0
            /\ pc' = [pc EXCEPT ![MaintTask] = MaintAfterFailure]
            /\ Release
  /\ UNCHANGED <<pool, nextConn, held, relArg, expired, startLeft>>

(***************************************************************************)
(* ConnectionPool.stop                                                     *)
(***************************************************************************)
\* self._maintenance_task.cancel(): CancelledError reaches the maintenance
\* task at its await, whether it sleeps, waits for the lock or holds it; it
\* leaves `async with self._lock` and the loop.  <<owner, queue>> afterwards:
LockAfterCancel ==
  IF pc[MaintTask] \in {"off", "cancelled"} THEN <<lockOwner, lockQueue>>
  ELSE IF lockOwner = MaintTask
    THEN IF lockQueue = <<>> THEN <<NoTask, <<>>>>
         ELSE <<Head(lockQueue), Tail(lockQueue)>>
  ELSE <<lockOwner, SelectSeq(lockQueue, LAMBDA t : t # MaintTask)>>

\* `if self._maintenance_task: self._maintenance_task.cancel()`
MaintAfterCancel == IF pc[MaintTask] = "off" THEN "off" ELSE "cancelled"

\* stop(): cancel the maintenance task, then close every connection inside
\* `async with self._lock`
CallStop ==
  /\ UNCHANGED notPoolVars
  /\ UNCHANGED start_attempts
  /\ pc[StopTask] = "init"
  /\ IF LockAfterCancel = <<NoTask, <<>>>>
       THEN /\ pool' = <<>>
            /\ pc' = [pc EXCEPT ![StopTask] = "stopped",
                                ![MaintTask] = MaintAfterCancel]
            /\ lockOwner' = NoTask
            /\ lockQueue' = <<>>
       ELSE /\ pc' = [pc EXCEPT ![StopTask] = "stop_lock",
                                ![MaintTask] = MaintAfterCancel]
            /\ lockOwner' = LockAfterCancel[1]
            /\ lockQueue' = Append(LockAfterCancel[2], StopTask)
            /\ UNCHANGED pool
  /\ UNCHANGED <<nextConn, tries, held, relArg, expired, startLeft>>

StopResume ==
  /\ UNCHANGED notPoolVars
  /\ UNCHANGED start_attempts
  /\ pc[StopTask] = "stop_lock"
  /\ lockOwner = StopTask
  /\ pool' = <<>>
  /\ pc' = [pc EXCEPT ![StopTask] = "stopped"]
  /\ Release
  /\ UNCHANGED <<nextConn, tries, held, relArg, expired, startLeft>>

PoolStep ==
  \/ StopResume
  \/ StartLoop \/ StartConnectOk \/ StartConnectFail
  \/ \E c \in Callers : GetScan(c) \/ GetConnectOk(c) \/ GetConnectFail(c)
                        \/ GetPoll(c) \/ ReleaseResume(c)
  \/ MaintWake \/ MaintScan \/ MaintClose \/ MaintRefill
  \/ MaintConnectOk \/ MaintConnectFail

PoolNext ==
  \/ Tick
  \/ CallStart
  \/ CallStop
  \/ \E c \in Callers : CallGet(c) \/ CallRelease(c)
  \/ PoolStep

PoolSpec == Init /\ [][PoolNext]_vars

\* The event loop runs every task that is ready: each task's next step is
\* taken if it stays enabled.  Calls by the environment and the passing of
\* time are not forced.
PoolFairness ==
  /\ WF_vars(StopResume)
  /\ WF_vars(StartLoop \/ StartConnectOk \/ StartConnectFail)
  /\ \A c \in Callers :
       WF_vars(GetScan(c) \/ GetConnectOk(c) \/ GetConnectFail(c)
               \/ GetPoll(c) \/ ReleaseResume(c))
  /\ WF_vars(MaintWake \/ MaintScan \/ MaintClose \/ MaintRefill
             \/ MaintConnectOk \/ MaintConnectFail)

FairPoolSpec == PoolSpec /\ PoolFairness

(***************************************************************************)
(* Claims about ConnectionPool                                             *)
(***************************************************************************)

\* C1: after any interleaving of start, get_connection, release_connection and
\* maintenance passes the pool never holds more than max_size connections.
C1_PoolSizeAtMostMax == Len(pool) <= max_size

\* C2: a pooled connection is leased to at most one caller at a time: no
\* connection is among the connections returned and not yet released twice,
\* neither by two callers nor by two calls of one caller.
C2_LeasedToAtMostOne ==
  \A c, d \in Callers :
    \A i \in 1..Len(held[c]) : \A j \in 1..Len(held[d]) :
      (c # d \/ i # j) => held[c][i] # held[d][j]

\* two callers hold connections at the same time, both pooled and busy
C2_Witness ==
  /\ \A c \in Callers : held[c] # <<>>
  /\ \A c \in Callers : \A i \in 1..Len(held[c]) :
       IndexOf(pool, held[c][i]) # 0 /\ pool[IndexOf(pool, held[c][i])].is_busy

\* C3: when the pool is full and busy and a get_connection is blocked, a
\* release_connection call completes and the blocked get_connection returns.
C3_ReleaseUnblocksWaiter ==
  \A c, d \in Callers :
    (pc[Caller(c)] = "get_poll" /\ pc[Caller(d)] = "rel_lock")
      ~> (pc[Caller(d)] # "rel_lock" /\ pc[Caller(c)] # "get_poll")

\* C18: when every connection attempt fails, start raises ConnectionError
\* after retry_limit attempts for each of the min_size slots, that is after
\* retry_limit * min_size attempts in total.
C18_StartRetryBudget ==
  (pc[StartTask] = "failed" /\ startLeft = min_size) =>
    start_attempts = retry_limit * min_size

\* C19: stop terminates in every reachable state: a stop call that has to
\* wait for the pool lock gets it and returns.
C19_StopTerminates ==
  (pc[StopTask] = "stop_lock") ~> (pc[StopTask] = "stopped")

BusyCount(p) == Cardinality({i \in 1..Len(p) : p[i].is_busy})

\* C21: a get_connection that returns hands out an idle connection of the pool
\* whenever one exists, leaving the size of the pool unchanged and exactly one
\* more connection busy; it creates a connection only when every connection is
\* busy and the pool holds fewer than max_size connections.
C21_ReuseIdleBeforeCreate ==
  [][\A c \in Callers :
       Len(held'[c]) = Len(held[c]) + 1 =>
         LET got == held'[c][Len(held'[c])] IN
         IF \E i \in 1..Len(pool) : ~pool[i].is_busy
         THEN /\ Len(pool') = Len(pool)
              /\ IndexOf(pool, got) # 0
              /\ ~pool[IndexOf(pool, got)].is_busy
              /\ pool'[IndexOf(pool', got)].is_busy
              /\ BusyCount(pool') = BusyCount(pool) + 1
         ELSE /\ Len(pool) < max_size
              /\ Len(pool') = Len(pool) + 1
              /\ IndexOf(pool, got) = 0
              /\ pool'[IndexOf(pool', got)].is_busy]_vars

\* start() filled the pool with max_size idle connections and every caller
\* has acquired one of them: nothing was created, all of them are busy
C21_Witness ==
  /\ pc[StartTask] = "started"
  /\ nextConn = min_size + 1
  /\ Len(pool) = min_size
  /\ BusyCount(pool) = NumCallers
  /\ \A c \in Callers : Len(held[c]) = 1

\* C22: release_connection called with a connection that is not in the pool
\* (closed by maintenance or by stop() while it was leased) changes nothing in
\* the pool and returns normally.
C22_ReleaseUnknownIsNoOp ==
  [][\A c \in Callers :
       LET gone == Range(held[c]) \ Range(held'[c]) IN
       /\ (/\ pc[Caller(c)] = "rel_lock"
           /\ pc'[Caller(c)] = "idle"
           /\ IndexOf(pool, relArg[c]) = 0) => pool' = pool
       /\ (/\ pc[Caller(c)] = "idle"
           /\ pc'[Caller(c)] = "idle"
           /\ gone # {}
           /\ \A id \in gone : IndexOf(pool, id) = 0) => pool' = pool]_vars

\* a caller is inside release_connection, holding the lock, with a connection
\* that left a non-empty pool while it was leased
C22_Witness ==
  \E c \in Callers :
    /\ pc[Caller(c)] = "rel_lock"
    /\ lockOwner = Caller(c)
    /\ relArg[c] # 0
    /\ IndexOf(pool, relArg[c]) = 0
    /\ pool # <<>>
    /\ \E i \in 1..Len(pool) : pool[i].is_busy

\* C30: a maintenance pass that fails (the connection attempt that refills
\* the pool exhausts its retries) leaves the pool as it is, gives the lock to
\* the next task waiting for it and goes back to sleep for the next pass; a
\* pass that finds the pool below min_size tries to create a connection.
C30_MaintenanceFailureContinues ==
  [][/\ (/\ pc[MaintTask] = "m_create"
         /\ pc'[MaintTask] \notin {"m_create", "m_close"}
         /\ pc'[StopTask] = pc[StopTask])
        => /\ pc'[MaintTask] = "sleep"
           /\ pool' = pool
           /\ lockOwner' # MaintTask
           /\ lockOwner' = (IF lockQueue = <<>> THEN NoTask ELSE Head(lockQueue))
     /\ (/\ pc[MaintTask] = "m_close"
         /\ expired = <<>>
         /\ Len(pool) < min_size
         /\ pc'[MaintTask] # pc[MaintTask]
         /\ pc'[StopTask] = pc[StopTask])
        => pc'[MaintTask] = "m_create"]_vars

\* a pass has failed: the maintenance task sleeps with the pool below
\* min_size, and a caller has the lock it was waiting for during the pass
C30_Witness ==
  /\ pc[MaintTask] = "sleep"
  /\ pc[StartTask] = "started"
  /\ Len(pool) < min_size
  /\ \E c \in Callers : lockOwner = Caller(c)

\* C33: the maintenance loop never closes or removes a connection that is
\* leased to a caller: every connection a maintenance pass evicts is idle at
\* the moment it is closed, whatever its age.
C33_EvictsOnlyIdle ==
  [][(pc[MaintTask] = "m_close" /\ expired # <<>> /\ expired' = Tail(expired)
        /\ IndexOf(pool, Head(expired)) # 0)
       => ~pool[IndexOf(pool, Head(expired))].is_busy]_vars

\* C6: no public wait hangs forever; for the pool: every get_connection call
\* that has been made eventually returns a connection or raises.
C6_GetConnectionReturns ==
  \A c \in Callers :
    (pc[Caller(c)] \in {"get_lock", "get_create", "get_poll"})
      ~> (pc[Caller(c)] = "idle")

(***************************************************************************)
(* BlenderMCPClient.send_command and the read loop                         *)
(* Call k uses message id k: uuid4 gives every call a fresh id.            *)
(***************************************************************************)
CallIds == 1..MaxCalls

\* a timeout handler without the del
DelKeepsEntryMut(f, id) == f

\* `del self._response_futures[message_id]` of the timeout handler
DelFuture(f, id) == f \ {id}

\* a pop that returns the future and keeps the entry
PopKeepsEntryMut(f, id) == f

\* `self._response_futures.pop(data["id"])` of _handle_message
PopFuture(f, id) == f \ {id}

\* a read loop that resolves the oldest pending future, whatever the frame's id
FutureForOldestMut(f, id) == CHOOSE j \in f : \A i \in f : j <= i

\* `self._response_futures.pop(data["id"])`: the future stored under the
\* frame's id
FutureFor(f, id) == id

\* the endpoints of api_spec.ENDPOINTS, by one representative
ENDPOINTS == {"create_object"}

\* (command, params) pairs a caller can pass: params that conform to the
\* endpoint's input_schema or violate it, and a name that is no endpoint
Requests == {<<"create_object", "conforming">>,
             <<"create_object", "violating">>,
             <<"invalid_endpoint", "conforming">>}

\* api_spec.get_endpoint: ENDPOINTS.get(name)
get_endpoint(name) == name \in ENDPOINTS

\* _validate_request: "ok" for `return True`, else the exception it raises
validate_request(endpoint_name, params) ==
  IF ~get_endpoint(endpoint_name) THEN "ValidationError"
  ELSE IF params = "violating" THEN "ValidationError"
  ELSE "ok"

\* the exception send_command raises when wait_for times out:
\* `raise ConnectionError(...)`, the class of client/errors.py
TimeoutRaises == "ConnectionError"

\* id, message, future creation and registration: no suspension in between
CallSend(k) ==
  /\ UNCHANGED notClientVars
  /\ cpc[k] = "new"
  /\ UNCHANGED directVars
  /\ \A j \in 1..(k-1) : cpc[j] # "new"
  /\ \E r \in Requests : command' = [command EXCEPT ![k] = r]
  /\ response_futures' = response_futures \cup {k}
  /\ futState' = [futState EXCEPT ![k] = "pending"]
  /\ cpc' = [cpc EXCEPT ![k] = "sending"]
  /\ UNCHANGED <<timedOut, outcome, wire, unhandled, received, raised, ws_sent>>

\* `await self.ws.send(...)` returns
SendOk(k) ==
  /\ UNCHANGED notClientVars
  /\ UNCHANGED directVars
  /\ cpc[k] = "sending"
  /\ wire' = wire \cup {k}
  /\ ws_sent' = ws_sent \cup {[id |-> k, command |-> command[k][1],
                                params |-> command[k][2]]}
  /\ cpc' = [cpc EXCEPT ![k] = "waiting"]
  /\ UNCHANGED <<response_futures, futState, timedOut, outcome, unhandled,
                 received, raised, command>>

\* `await self.ws.send(...)` raises: the entry is deleted, ConnectionError
SendFail(k) ==
  /\ UNCHANGED notClientVars
  /\ UNCHANGED directVars
  /\ cpc[k] = "sending"
  /\ response_futures' = DelFuture(response_futures, k)
  /\ cpc' = [cpc EXCEPT ![k] = "done"]
  /\ outcome' = [outcome EXCEPT ![k] = "send_failed"]
  /\ raised' = [raised EXCEPT ![k] = "ConnectionError"]
  /\ UNCHANGED <<futState, timedOut, wire, unhandled, received, command, ws_sent>>

\* _handle_message on a response frame carrying id k
HandleMessage(k) ==
  /\ UNCHANGED notClientVars
  /\ UNCHANGED directVars
  /\ k \in wire
  /\ wire' = wire \ {k}
  /\ IF k \in response_futures
       THEN LET j == FutureFor(response_futures, k) IN
            /\ response_futures' = PopFuture(response_futures, j)
            /\ futState' = [futState EXCEPT ![j] =
                              IF @ = "pending" THEN "result" ELSE @]
            /\ received' = [received EXCEPT ![j] =
                              IF futState[j] = "pending" THEN k ELSE @]
            /\ UNCHANGED unhandled
       ELSE /\ unhandled' = unhandled \cup {k}
            /\ UNCHANGED <<response_futures, futState, received>>
  /\ UNCHANGED <<cpc, timedOut, outcome, raised, command, ws_sent>>

\* the timeout of asyncio.wait_for(future, timeout=30) expires.  A pending
\* future is cancelled and the caller is woken with TimeoutError.  When the
\* future already holds its result and the caller has not run yet, the
\* result is returned (wait_for up to Python 3.11) or the caller is cancelled
\* and gets TimeoutError (wait_for on asyncio.timeout, Python 3.12 on).
TimerFire(k) ==
  /\ UNCHANGED notClientVars
  /\ cpc[k] = "waiting"
  /\ ~timedOut[k]
  /\ \/ /\ futState[k] = "pending"
        /\ futState' = [futState EXCEPT ![k] = "cancelled"]
        /\ timedOut' = [timedOut EXCEPT ![k] = TRUE]
     \/ /\ futState[k] = "result"
        /\ timedOut' = [timedOut EXCEPT ![k] = TRUE]
        /\ UNCHANGED futState
  /\ UNCHANGED directVars
  /\ UNCHANGED <<response_futures, cpc, outcome, wire, unhandled, received,
                 raised, command, ws_sent>>

\* the caller task runs again after `await asyncio.wait_for(...)`
Resume(k) ==
  /\ UNCHANGED notClientVars
  /\ cpc[k] = "waiting"
  /\ futState[k] = "result" \/ timedOut[k]
  /\ cpc' = [cpc EXCEPT ![k] = "done"]
  /\ IF timedOut[k]
       THEN \* except asyncio.TimeoutError: del, then raise ConnectionError
            IF k \in response_futures
              THEN /\ response_futures' = DelFuture(response_futures, k)
                   /\ outcome' = [outcome EXCEPT ![k] = "timeout"]
                   /\ raised' = [raised EXCEPT ![k] = TimeoutRaises]
              ELSE \* `del` of a key that is gone raises KeyError
                   /\ outcome' = [outcome EXCEPT ![k] = "KeyError"]
                   /\ raised' = [raised EXCEPT ![k] = "KeyError"]
                   /\ UNCHANGED response_futures
       ELSE /\ outcome' = [outcome EXCEPT ![k] = "response"]
            /\ UNCHANGED <<response_futures, raised>>
  /\ UNCHANGED directVars
  /\ UNCHANGED <<futState, timedOut, wire, unhandled, received, command, ws_sent>>

(***************************************************************************)
(* BlenderMCPClient._send_command: validate, lease a pool connection,      *)
(* send, recv, release.  The pool is seen here only as the number of       *)
(* connections this call holds; the pool itself is the first component.    *)
(***************************************************************************)
\* MCPError.max_retries
max_retries == 3

\* errors.is_retriable_error
is_retriable_error(category) == category \in {"connection", "timeout", "resource"}

\* _handle_error on a fresh MCPError (retry_count = 0): the "retrying" dict for
\* a retriable category, else mcp_error.to_dict()
handle_error(type, category) ==
  IF is_retriable_error(category) /\ 0 < max_retries
    THEN [retrying |-> TRUE, retry_count |-> 1]
    ELSE [isError |-> TRUE, category |-> category, type |-> type]

\* a finally clause that does not release
ReleaseInFinallyKeepsMut(n) == n

\* `finally: await self.connection_pool.release_connection(connection)`:
\* the number of connections the call holds afterwards
ReleaseInFinally(n) == n - 1

\* the call, up to `await self._validate_request(command, params)`
DirectCall ==
  /\ UNCHANGED notClientVars
  /\ UNCHANGED sendVars
  /\ dpc = "new"
  /\ \E r \in Requests :
       /\ dcommand' = r
       /\ IF validate_request(r[1], r[2]) = "ok"
            THEN /\ dpc' = "get_connection"
                 /\ UNCHANGED dresult
            ELSE \* except ValidationError
                 /\ dpc' = "done"
                 /\ dresult' = handle_error(validate_request(r[1], r[2]),
                                            "validation")
  /\ UNCHANGED <<leased, conn_sent>>

\* `connection = await self.connection_pool.get_connection()` returns
DirectGetOk ==
  /\ UNCHANGED notClientVars
  /\ UNCHANGED sendVars
  /\ dpc = "get_connection"
  /\ leased' = leased + 1
  /\ dpc' = "send"
  /\ UNCHANGED <<dcommand, dresult, conn_sent>>

\* get_connection raises (ConnectionError of _create_connection): except Exception
DirectGetFail ==
  /\ UNCHANGED notClientVars
  /\ UNCHANGED sendVars
  /\ dpc = "get_connection"
  /\ dpc' = "done"
  /\ dresult' = handle_error("ConnectionError", "execution")
  /\ UNCHANGED <<dcommand, leased, conn_sent>>

\* `await connection.send(json.dumps(message))` returns
DirectSendOk ==
  /\ UNCHANGED notClientVars
  /\ UNCHANGED sendVars
  /\ dpc = "send"
  /\ conn_sent' = conn_sent \cup {[command |-> dcommand[1], params |-> dcommand[2]]}
  /\ dpc' = "recv"
  /\ UNCHANGED <<dcommand, dresult, leased>>

\* send or recv raises: the finally clause releases, except Exception answers
DirectFail ==
  /\ UNCHANGED notClientVars
  /\ UNCHANGED sendVars
  /\ dpc \in {"send", "recv"}
  /\ leased' = ReleaseInFinally(leased)
  /\ dpc' = "done"
  /\ dresult' = handle_error("ConnectionClosed", "execution")
  /\ UNCHANGED <<dcommand, conn_sent>>

\* `response = await connection.recv()` returns: the next frame of the leased
\* connection is the result, the finally clause releases
DirectRecvOk ==
  /\ UNCHANGED notClientVars
  /\ UNCHANGED sendVars
  /\ dpc = "recv"
  /\ leased' = ReleaseInFinally(leased)
  /\ dpc' = "done"
  /\ dresult' = [response |-> dcommand]
  /\ UNCHANGED <<dcommand, conn_sent>>

DirectNext ==
  \/ DirectCall \/ DirectGetOk \/ DirectGetFail
  \/ DirectSendOk \/ DirectFail \/ DirectRecvOk

ClientNext ==
  \/ \E k \in CallIds :
       \/ CallSend(k) \/ SendOk(k) \/ SendFail(k)
       \/ TimerFire(k) \/ HandleMessage(k) \/ Resume(k)
  \/ DirectNext

ClientSpec == Init /\ [][ClientNext]_vars

\* every started send and every woken caller runs; every timeout expires;
\* the server is not obliged to answer
ClientFairness ==
  \A k \in CallIds :
    /\ WF_vars(SendOk(k) \/ SendFail(k))
    /\ WF_vars(TimerFire(k))
    /\ WF_vars(Resume(k))

FairClientSpec == ClientSpec /\ ClientFairness

(***************************************************************************)
(* Claims about send_command                                               *)
(***************************************************************************)

\* C4: every send_command call whose message was written to the connection
\* delivers exactly one of the response with its id or a timeout failure, and
\* nothing else.
C4_ResponseOrTimeout ==
  \A k \in CallIds :
    (cpc[k] = "done" /\ outcome[k] # "send_failed")
      => outcome[k] \in {"response", "timeout"}

\* C5: after a send_command call has timed out its id is not in the pending
\* table, and a response with that id handled later changes neither the table
\* nor any future nor any caller's outcome.
C5_TimeoutRemovesEntry ==
  /\ [](\A k \in CallIds : outcome[k] = "timeout" => k \notin response_futures)
  /\ [][\A k \in CallIds :
         (outcome[k] = "timeout" /\ k \in wire /\ k \notin wire')
           => (/\ response_futures' = response_futures
               /\ futState' = futState
               /\ outcome' = outcome
               /\ cpc' = cpc)]_vars

\* a call timed out and its late response was then logged and dropped
C5_Witness ==
  \E k \in CallIds : outcome[k] = "timeout" /\ k \in unhandled

\* C23: with several sends outstanding on the connection and their responses
\* arriving in any order, the future of every call is resolved with the frame
\* that carries the call's own id, and a call that returns a response returns
\* that frame.
C23_ResponseMatchedById ==
  \A k \in CallIds :
    /\ futState[k] = "result" => received[k] = k
    /\ outcome[k] = "response" => received[k] = k

\* two sends are outstanding; the response to the later one has resolved its
\* future while the response to the earlier one is still on its way
C23_Witness ==
  \E k \in CallIds : \E j \in CallIds :
    /\ j < k
    /\ received[k] = k
    /\ futState[k] = "result"
    /\ cpc[j] = "waiting"
    /\ futState[j] = "pending"
    /\ j \in wire

\* C32: the pending-request table holds only ids of send_command calls that
\* are still in flight: once a call has completed, by response, by timeout
\* or by a failed write, its id is not in the table.
C32_TableHoldsOnlyInFlight ==
  \A k \in response_futures : cpc[k] \in {"sending", "waiting"}

\* one call has returned its response and another has ended by timeout
C32_Witness ==
  /\ \E k \in CallIds : outcome[k] = "response" /\ cpc[k] = "done"
  /\ \E k \in CallIds : outcome[k] = "timeout" /\ cpc[k] = "done"
  /\ response_futures = {}

\* C36: every connection leased by _send_command is released exactly once
\* before the call returns, whether the exchange succeeds or the write or
\* the read fails; a call rejected by validation leases none; after a
\* completed call no connection is left leased.
C36_LeaseReleasedOnce ==
  /\ [](/\ leased \in {0, 1}
        /\ (dpc \in {"new", "get_connection", "done"} => leased = 0)
        /\ (dpc \in {"send", "recv"} => leased = 1))
  /\ [][/\ (leased' > leased =>
              validate_request(dcommand[1], dcommand[2]) = "ok")
        /\ (leased' < leased => leased' = leased - 1 /\ dpc' = "done")
        /\ (dpc' = "done" /\ dpc \in {"send", "recv"} => leased' = leased - 1)
       ]_vars

\* a call that leased a connection and sent its message has returned the
\* error of a failed read and holds no connection
C36_Witness ==
  /\ dpc = "done"
  /\ leased = 0
  /\ conn_sent # {}
  /\ "isError" \in DOMAIN dresult

\* C24: a send_command call that gets no response within its deadline fails
\* with a TimeoutError, and no answer of the client is a "retrying" marker.
C24_TimeoutIsTimeoutError ==
  /\ \A k \in CallIds : outcome[k] = "timeout" => raised[k] = "TimeoutError"
  /\ "retrying" \notin DOMAIN dresult

\* C25: no message with an unknown command or with params that violate the
\* endpoint's schema is written to any connection, and a _send_command call
\* with such a request ends with a validation error without having leased a
\* connection.
C25_InvalidNeverDispatched ==
  /\ \A m \in ws_sent \cup conn_sent :
       validate_request(m.command, m.params) = "ok"
  /\ (dpc # "new" /\ validate_request(dcommand[1], dcommand[2]) # "ok")
       => /\ dpc = "done"
          /\ leased = 0
          /\ dresult = [isError |-> TRUE, category |-> "validation",
                         type |-> "ValidationError"]

(***************************************************************************)
(* BatchManager._sort_operations                                           *)
(* An operation is [id, priority, created_at, depends_on]; id n stands for *)
(* "op_n".  depends_on lists the distinct ids of set(op.depends_on) in the *)
(* order in which `for dep_id in graph[op_id]` yields them.                *)
(***************************************************************************)
Priorities == {0, 5, 10}

Ids(ops) == {ops[i].id : i \in 1..Len(ops)}

OpOf(ops, id) == ops[CHOOSE i \in 1..Len(ops) : ops[i].id = id]

\* a graph without dependency edges
GraphNoEdgesMut(ops, id) == <<>>

\* graph[op_id]
Graph(ops, id) == OpOf(ops, id).depends_on

\* a key that leaves out the priority
KeyLessCreatedOnlyMut(a, b) == a.created_at < b.created_at

\* key=lambda x: (-x[1].priority, x[1].created_at)
KeyLess(a, b) ==
  \/ a.priority > b.priority
  \/ (a.priority = b.priority /\ a.created_at < b.created_at)

\* sorted() is stable: x goes before the first element with a greater key
RECURSIVE InsertByKey(_, _)
InsertByKey(s, x) ==
  IF s = <<>> THEN <<x>>
  ELSE IF KeyLess(x, Head(s)) THEN <<x>> \o s
  ELSE <<Head(s)>> \o InsertByKey(Tail(s), x)

RECURSIVE SortedByKey(_)
SortedByKey(s) ==
  IF s = <<>> THEN <<>>
  ELSE InsertByKey(SortedByKey(SubSeq(s, 1, Len(s) - 1)), s[Len(s)])

\* 1-based position of id in a list of ids, 0 when absent
PosOf(order, id) ==
  IF \E i \in 1..Len(order) : order[i] = id
    THEN CHOOSE i \in 1..Len(order) : order[i] = id
    ELSE 0

NoErr == [kind |-> "none", id |-> -1]

\* sorted_ops, visited, temp_visited, and the exception raised, if any
SortStart == [sorted |-> <<>>, visited |-> {}, temp |-> {}, err |-> NoErr]

\* In the operators below `CHOOSE r \in {F(x) : x \in {v}} : TRUE` is F(v) with
\* v computed once, as a local variable of the Python code is.

RECURSIVE visit(_, _, _)
RECURSIVE visitDeps(_, _, _)

\* `for dep_id in graph[op_id]: visit(dep_id)`
visitDeps(ops, deps, st0) ==
  LET Loop(st) ==
        IF deps = <<>> \/ st.err.kind # "none" THEN st
        ELSE visitDeps(ops, Tail(deps), visit(ops, Head(deps), st))
  IN CHOOSE r \in {Loop(x) : x \in {st0}} : TRUE

visit(ops, id, st0) ==
  LET Done(st2) ==
        IF st2.err.kind # "none" THEN st2
        ELSE [st2 EXCEPT !.temp = @ \ {id},
                         !.visited = @ \cup {id},
                         !.sorted = Append(@, id)]
      Body(st) ==
        IF st.err.kind # "none" THEN st
        ELSE IF id \in st.temp
          THEN [st EXCEPT !.err = [kind |-> "ValueError", id |-> id]]
        ELSE IF id \in st.visited THEN st
        ELSE IF id \notin Ids(ops)
          THEN \* graph[op_id] of an id that is not buffered
               [st EXCEPT !.temp = @ \cup {id},
                          !.err = [kind |-> "KeyError", id |-> id]]
        ELSE CHOOSE r \in {Done(x) : x \in {visitDeps(ops, Graph(ops, id),
                                       [st EXCEPT !.temp = @ \cup {id}])}} : TRUE
  IN CHOOSE r \in {Body(x) : x \in {st0}} : TRUE

\* `for op_id, op in sorted(...): if op_id not in visited: visit(op_id)`
RECURSIVE visitAll(_, _, _)
visitAll(ops, order, st0) ==
  LET Loop(st) ==
        IF order = <<>> \/ st.err.kind # "none" THEN st
        ELSE visitAll(ops, Tail(order),
                      IF Head(order).id \in st.visited THEN st
                      ELSE visit(ops, Head(order).id, st))
  IN CHOOSE r \in {Loop(x) : x \in {st0}} : TRUE

sort_operations(ops) ==
  LET Start(order) == visitAll(ops, order, SortStart)
  IN CHOOSE r \in {Start(x) : x \in {SortedByKey(ops)}} : TRUE

(***************************************************************************)
(* BatchManager.flush                                                      *)
(***************************************************************************)
BLockFree == bLockOwner = NoTask /\ bLockQueue = <<>>

BAcquire(t) ==
  IF BLockFree
    THEN bLockOwner' = t /\ bLockQueue' = bLockQueue
    ELSE bLockOwner' = bLockOwner /\ bLockQueue' = Append(bLockQueue, t)

\* what flush() returns or raises on buffer ops
FlushOutcome(ops) ==
  IF ops = <<>> THEN [kind |-> "list", order |-> <<>>, id |-> -1, ops |-> <<>>]
  ELSE LET Result(r) ==
             IF r.err.kind # "none"
               THEN [kind |-> r.err.kind, order |-> <<>>, id |-> r.err.id, ops |-> ops]
               ELSE [kind |-> "list", order |-> r.sorted, id |-> -1, ops |-> ops]
       IN CHOOSE r \in {Result(x) : x \in {sort_operations(ops)}} : TRUE

\* a flush that clears the buffer whatever the sort did
FlushLeavesClearedMut(ops) == <<>>

\* self._operations after flush(): cleared unless the sort raised
FlushLeaves(ops) ==
  IF FlushOutcome(ops).kind = "list" THEN <<>> ELSE ops

\* A task calls flush().  Nothing inside `async with self._lock` suspends, so
\* with the lock free the whole body runs in one step; a lock that is not
\* free is held by a task suspended inside add_operation.
CallFlush ==
  /\ UNCHANGED notBatchVars
  /\ bpc[FlusherTask] = "idle"
  /\ IF BLockFree
       THEN /\ flushResult' = FlushOutcome(operations)
            /\ operations' = FlushLeaves(operations)
            /\ bpc' = [bpc EXCEPT ![FlusherTask] = "flushed"]
            /\ UNCHANGED <<bLockOwner, bLockQueue>>
       ELSE /\ bpc' = [bpc EXCEPT ![FlusherTask] = "flush_lock"]
            /\ BAcquire(FlusherTask)
            /\ UNCHANGED <<operations, flushResult>>
  /\ UNCHANGED <<operation_counter, running, addResult>>

\* the caller of flush() has taken the returned list (or the exception)
FlushAck ==
  /\ UNCHANGED notBatchVars
  /\ bpc[FlusherTask] = "flushed"
  /\ bpc' = [bpc EXCEPT ![FlusherTask] = "idle"]
  /\ flushResult' = NoResult
  /\ UNCHANGED <<operations, operation_counter, running, bLockOwner, bLockQueue,
                 addResult>>

(***************************************************************************)
(* BatchManager.add_operation                                              *)
(***************************************************************************)
\* the limit test with > in place of >=
ReachedLimitOffByOneMut(n) == n > max_batch_size

\* `if len(self._operations) >= self.max_batch_size`
ReachedLimit(n) == n >= max_batch_size

LastCreated(ops) == IF ops = <<>> THEN 0 ELSE ops[Len(ops)].created_at

AddPriorities == {0, 5}

\* arguments an adder passes: depends_on names no operation, the previous
\* one or the next one
AddDeps(id) ==
  {<<>>} \cup {<<d>> : d \in {id - 1, id + 1} \cap (0..(MaxAdds - 1))}

\* A task calls add_operation; as in flush(), the body runs in one step up
\* to `await self.flush()`.
CallAdd ==
  /\ UNCHANGED notBatchVars
  /\ bpc[AdderTask] = "idle"
  /\ operation_counter < MaxAdds
  /\ IF BLockFree
       THEN \E p \in AddPriorities, deps \in AddDeps(operation_counter),
               t \in {LastCreated(operations), LastCreated(operations) + 1} :
              /\ operations' = Append(operations,
                                      [id |-> operation_counter, priority |-> p,
                                       created_at |-> t, depends_on |-> deps])
              /\ operation_counter' = operation_counter + 1
              /\ IF ReachedLimit(Len(operations'))
                   THEN \* `await self.flush()` asks for the lock this task holds
                        /\ bpc' = [bpc EXCEPT ![AdderTask] = "add_flush"]
                        /\ bLockOwner' = AdderTask
                        /\ bLockQueue' = Append(bLockQueue, AdderTask)
                        /\ UNCHANGED addResult
                   ELSE /\ bpc' = [bpc EXCEPT ![AdderTask] = "idle"]
                        /\ addResult' = operation_counter
                        /\ UNCHANGED <<bLockOwner, bLockQueue>>
       ELSE /\ bpc' = [bpc EXCEPT ![AdderTask] = "add_lock"]
            /\ BAcquire(AdderTask)
            /\ UNCHANGED <<operations, operation_counter, addResult>>
  /\ UNCHANGED <<running, flushResult>>

(***************************************************************************)
(* BatchManager.start and BatchManager._auto_flush                         *)
(***************************************************************************)
BatchStart ==
  /\ UNCHANGED notBatchVars
  /\ bpc[AutoTask] = "off"
  /\ running' = TRUE
  /\ bpc' = [bpc EXCEPT ![AutoTask] = "sleep"]
  /\ UNCHANGED <<operations, operation_counter, bLockOwner, bLockQueue, addResult,
                 flushResult>>

\* asyncio.sleep(flush_interval) is over: flush(), drop what it returns, log
\* what it raises, and sleep again
AutoWake ==
  /\ UNCHANGED notBatchVars
  /\ bpc[AutoTask] = "sleep"
  /\ running
  /\ UNCHANGED <<operation_counter, running, addResult, flushResult>>
  /\ IF BLockFree
       THEN /\ UNCHANGED <<bpc, bLockOwner, bLockQueue>>
            /\ operations' = FlushLeaves(operations)
       ELSE /\ bpc' = [bpc EXCEPT ![AutoTask] = "auto_lock"]
            /\ BAcquire(AutoTask)
            /\ UNCHANGED operations

(***************************************************************************)
(* BatchManager.stop                                                       *)
(***************************************************************************)
\* the `await self.flush()` at the end of stop(): what it returns is dropped,
\* what it raises leaves stop()
StopFlushBody ==
  IF BLockFree
    THEN /\ bLockOwner' = bLockOwner
         /\ bLockQueue' = bLockQueue
         /\ operations' = FlushLeaves(operations)
         /\ bpc' = [bpc EXCEPT ![StopperTask] =
                      IF FlushOutcome(operations).kind = "list"
                        THEN "stopped" ELSE "stop_raised",
                                ![AutoTask] = IF @ = "off" THEN "off" ELSE "ended"]
    ELSE /\ operations' = operations
         /\ bpc' = [bpc EXCEPT ![StopperTask] = "stop_lock",
                                ![AutoTask] = IF @ = "off" THEN "off" ELSE "ended"]
         /\ bLockOwner' = bLockOwner
         /\ bLockQueue' = Append(bLockQueue, StopperTask)

\* stop(): _running = False; with a flush task, cancel it and wait for it to
\* end (CancelledError in its sleep or in its wait for the lock: break);
\* without one, go on to flush() at once
BatchStop ==
  /\ UNCHANGED notBatchVars
  /\ bpc[StopperTask] = "idle"
  /\ running' = FALSE
  /\ UNCHANGED <<operation_counter, addResult, flushResult>>
  /\ IF bpc[AutoTask] = "off"
       THEN StopFlushBody
       ELSE /\ bpc' = [bpc EXCEPT ![StopperTask] = "stop_join",
                                  ![AutoTask] = "ended"]
            /\ bLockQueue' = SelectSeq(bLockQueue, LAMBDA t : t # AutoTask)
            /\ UNCHANGED <<operations, bLockOwner>>

\* the cancelled flush task has ended: stop() goes on to `await self.flush()`
BatchStopFlush ==
  /\ UNCHANGED notBatchVars
  /\ bpc[StopperTask] = "stop_join"
  /\ UNCHANGED <<operation_counter, running, addResult, flushResult>>
  /\ StopFlushBody

BatchNext ==
  \/ CallAdd \/ CallFlush \/ FlushAck \/ BatchStart \/ AutoWake
  \/ BatchStop \/ BatchStopFlush

BatchSpec == Init /\ [][BatchNext]_vars

\* the event loop runs every task that can run and every timer expires:
\* the sleep of _auto_flush ends, a stop() in progress continues
BatchFairness ==
  /\ WF_vars(AutoWake)
  /\ WF_vars(BatchStopFlush)

FairBatchSpec == BatchSpec /\ BatchFairness

(***************************************************************************)
(* flush() applied to a BatchManager that holds any small buffer           *)
(***************************************************************************)
MaxBuffer == max_batch_size - 1

RECURSIVE SeqsNoDup(_, _)
SeqsNoDup(S, n) ==
  IF n = 0 THEN {<<>>}
  ELSE LET shorter == SeqsNoDup(S, n - 1) IN
       shorter \cup {Append(q, x) : q \in shorter, x \in S}

DepLists ==
  {q \in SeqsNoDup(0..MaxBuffer, MaxDeps) :
     \A i, j \in 1..Len(q) : i # j => q[i] # q[j]}

\* the buffers add_operation can build with n operations: ids 0..n-1 in
\* insertion order, creation times that never decrease
RECURSIVE BuffersOfLen(_)
BuffersOfLen(n) ==
  IF n = 0 THEN {<<>>}
  ELSE UNION {
         {Append(b, [id |-> n - 1, priority |-> p, created_at |-> t,
                     depends_on |-> d]) :
            p \in Priorities, d \in DepLists,
            t \in IF n = 1 THEN {0} ELSE {LastCreated(b), LastCreated(b) + 1}} :
         b \in BuffersOfLen(n - 1)}

Buffers(maxLen) == UNION {BuffersOfLen(n) : n \in 0..maxLen}

FlushInit ==
  /\ PoolInit /\ ClientInit /\ IpcInit /\ RegInit /\ SrvInit /\ BatchIdle
  /\ operations \in Buffers(MaxBuffer)
  /\ operation_counter = Len(operations)

FlushNext == CallFlush \/ FlushAck

FlushSpec == FlushInit /\ [][FlushNext]_vars

\* the orders in which iterating set(op.depends_on) can yield the ids of q:
\* the order of a Python set of strings follows their hashes, which differ
\* from process to process, and on a collision the order of insertion
IterationOrders(q) ==
  {p \in SeqsNoDup(Range(q), Len(q)) : Len(p) = Len(q) /\ Range(p) = Range(q)}

\* buffers of n operations with priorities 0 and 5, created one after the
\* other, that name up to maxDeps of the ids 0..n-1 as dependencies
RECURSIVE OrderBuffersOfLen(_, _, _)
OrderBuffersOfLen(n, ids, maxDeps) ==
  IF n = 0 THEN {<<>>}
  ELSE UNION {
         {Append(b, [id |-> n - 1, priority |-> p, created_at |-> n - 1,
                     depends_on |-> d]) :
            p \in {0, 5},
            d \in {q \in SeqsNoDup(ids, maxDeps) : Cardinality(Range(q)) = Len(q)}} :
         b \in OrderBuffersOfLen(n - 1, ids, maxDeps)}

OrderInit ==
  /\ PoolInit /\ ClientInit /\ IpcInit /\ RegInit /\ SrvInit /\ BatchIdle
  /\ operations \in UNION {OrderBuffersOfLen(n, 0..(n - 1), MaxOrderDeps) :
                              n \in 1..MaxOrderOps}
  /\ operation_counter = Len(operations)

\* flush() on buffers whose operations have several dependencies
OrderSpec == OrderInit /\ [][FlushNext]_vars

(***************************************************************************)
(* Claims about BatchManager                                               *)
(***************************************************************************)

\* C7: a list returned by flush places every operation of the buffer after
\* all the operations listed in its depends_on; in particular A (priority 0),
\* B (depends on A, priority 5), C (priority 10) never comes out as [B, A, C].
C7_DependenciesFirst ==
  flushResult.kind = "list" =>
    \A i \in 1..Len(flushResult.ops) :
      LET op == flushResult.ops[i] IN
      /\ PosOf(flushResult.order, op.id) # 0
      /\ \A j \in 1..Len(op.depends_on) :
           /\ PosOf(flushResult.order, op.depends_on[j]) # 0
           /\ PosOf(flushResult.order, op.depends_on[j])
                < PosOf(flushResult.order, op.id)

\* the buffer A, B, C of the example has been flushed: C comes first, B last
C7_Witness ==
  /\ flushResult.kind = "list"
  /\ Len(flushResult.ops) = 3
  /\ flushResult.ops[1].priority = 0 /\ flushResult.ops[1].depends_on = <<>>
  /\ flushResult.ops[2].priority = 5 /\ flushResult.ops[2].depends_on = <<0>>
  /\ flushResult.ops[3].priority = 10 /\ flushResult.ops[3].depends_on = <<>>
  /\ flushResult.order = <<2, 0, 1>>

\* C8: flushing a buffer that contains a dependency cycle raises a
\* ValidationError naming an operation id on the cycle, and returns no order.
C8_CycleRaisesValidationError ==
  LET ops == flushResult.ops
      Deps(id) == IF id \in Ids(ops) THEN Range(OpOf(ops, id).depends_on) ELSE {}
      Step(S) == S \cup UNION {Deps(x) : x \in S}
      Below(id) == Step(Step(Step(Step(Deps(id)))))
      OnCycle(id) == id \in Ids(ops) /\ id \in Below(id)
  IN (flushResult.kind # "none" /\ \E id \in Ids(ops) : OnCycle(id)) =>
       (flushResult.kind = "ValidationError" /\ OnCycle(flushResult.id))

\* C9: add_operation never waits for the exclusive section it is itself in:
\* no task that owns the BatchManager lock is queued for that lock.
C9_AddNeverWaitsOnOwnLock ==
  \A t \in BatchTasks : ~(bLockOwner = t /\ t \in Range(bLockQueue))

NoDependencies(ops) == \A i \in 1..Len(ops) : ops[i].depends_on = <<>>

\* C26: while the manager is running, buffered operations without dependencies
\* are flushed by the background task (the buffer becomes empty)
\* without any add or caller flush being needed; an auto-flush error leaves
\* the task in its loop, and the task ends only once stop() has been called.
C26_AutoFlushWithinInterval ==
  /\ [](bpc[AutoTask] = "ended" => bpc[StopperTask] # "idle")
  /\ [][bpc[AutoTask] = "sleep" /\ bpc'[AutoTask] \notin {"sleep", "auto_lock"}
          => bpc[StopperTask] = "idle" /\ bpc'[StopperTask] # "idle"]_vars
  /\ (running /\ operations # <<>> /\ NoDependencies(operations))
       ~> (operations = <<>> \/ ~running \/ ~NoDependencies(operations))

\* C34: no accepted operation is lost: whenever operations leave the buffer,
\* in the timer-driven auto-flush, in the flush of add_operation or in the
\* flush of stop(), exactly those operations are handed as one batch to a
\* caller that dispatches them.
C34_NoOperationLost ==
  [][operations' # operations /\ Len(operations') <= Len(operations)
       => /\ flushResult' # flushResult
          /\ flushResult'.kind = "list"
          /\ Len(flushResult'.order) = Len(operations)
          /\ Range(flushResult'.order) = Ids(operations)]_vars

\* C35: a flush that fails because of a dependency cycle leaves the
\* scheduler unchanged: the buffer holds exactly the operations it held
\* before the call and the operation counter is unchanged.
C35_FailedFlushChangesNothing ==
  [][flushResult' # flushResult /\ flushResult'.kind = "ValueError"
       => /\ operations' = operations
          /\ operations' = flushResult'.ops
          /\ operation_counter' = operation_counter]_vars

\* a flush of two operations that depend on each other has raised and both
\* are still buffered
C35_Witness ==
  /\ flushResult.kind = "ValueError"
  /\ Len(operations) = 2
  /\ operations = flushResult.ops
  /\ operations[1].depends_on = <<1>> /\ operations[2].depends_on = <<0>>
  /\ operation_counter = 2

\* C11: flush on a non-empty buffer without a dependency cycle returns
\* exactly the buffered operations, each once, and leaves the buffer empty;
\* flush on an empty buffer returns an empty list and changes nothing.
C11_FlushReturnsBuffer ==
  LET ops == flushResult.ops
      Deps(id) == IF id \in Ids(ops) THEN Range(OpOf(ops, id).depends_on) ELSE {}
      Step(S) == S \cup UNION {Deps(x) : x \in S}
      Below(id) == Step(Step(Step(Step(Deps(id)))))
      Acyclic == \A id \in Ids(ops) : id \notin Below(id)
  IN (flushResult.kind # "none" /\ Acyclic) =>
       /\ flushResult.kind = "list"
       /\ Len(flushResult.order) = Len(ops)
       /\ Range(flushResult.order) = Ids(ops)
       /\ operations = <<>>

\* C31: only dependencies inside the buffer constrain a flush: when a
\* buffered operation names a dependency that is not buffered and the
\* dependencies among the buffered operations have no cycle, flush returns
\* all buffered operations, each after its buffered dependencies.
C31_UnbufferedDependencyIgnored ==
  LET ops == flushResult.ops
      Deps(id) == IF id \in Ids(ops) THEN Range(OpOf(ops, id).depends_on) ELSE {}
      Step(S) == S \cup UNION {Deps(x) : x \in S}
      Below(id) == Step(Step(Step(Step(Deps(id)))))
      Outside == \E id \in Ids(ops) : \E d \in Deps(id) : d \notin Ids(ops)
  IN (flushResult.kind # "none" /\ Outside
        /\ \A id \in Ids(ops) : id \notin Below(id)) =>
       /\ flushResult.kind = "list"
       /\ Range(flushResult.order) = Ids(ops)
       /\ \A id \in Ids(ops) : \A d \in Deps(id) \cap Ids(ops) :
            PosOf(flushResult.order, d) < PosOf(flushResult.order, id)

\* the buffers that hold the same operations as ops (ids, priorities,
\* creation times, dependency sets) with the dependency sets iterated in any
\* of their orders
RECURSIVE SameContents(_)
SameContents(ops) ==
  IF ops = <<>> THEN {<<>>}
  ELSE LET last == ops[Len(ops)] IN
       UNION {{Append(b, [last EXCEPT !.depends_on = p]) :
                 p \in IterationOrders(last.depends_on)} :
              b \in SameContents(SubSeq(ops, 1, Len(ops) - 1))}

\* C28: the order flush returns is a function of the buffer contents: every
\* scheduler that holds the same operations (ids, priorities, creation times,
\* dependency sets) returns the order this flush returned.
C28_FlushOrderDeterministic ==
  flushResult.kind = "list" =>
    \A b \in SameContents(flushResult.ops) :
      FlushOutcome(b).order = flushResult.order

\* C12: of two buffered operations that take part in no dependency edge,
\* flush outputs the one with higher priority first and, at equal priority,
\* the one created earlier first; each appears exactly once.
C12_PriorityThenCreation ==
  LET ops == flushResult.ops
      Isolated(i) ==
        /\ ops[i].depends_on = <<>>
        /\ \A j \in 1..Len(ops) : ops[i].id \notin Range(ops[j].depends_on)
      Count(id) == Cardinality({k \in 1..Len(flushResult.order) :
                                 flushResult.order[k] = id})
  IN flushResult.kind = "list" =>
       \A i, j \in 1..Len(ops) :
         (Isolated(i) /\ Isolated(j)) =>
           /\ Count(ops[i].id) = 1
           /\ (\/ ops[i].priority > ops[j].priority
               \/ (ops[i].priority = ops[j].priority
                   /\ ops[i].created_at < ops[j].created_at))
                => PosOf(flushResult.order, ops[i].id)
                     < PosOf(flushResult.order, ops[j].id)

\* two independent operations were flushed; the one added later has the
\* higher priority and comes out first, ahead of two equal-priority ones
\* that come out in creation order
C12_Witness ==
  /\ flushResult.kind = "list"
  /\ Len(flushResult.ops) = 3
  /\ \A i \in 1..3 : flushResult.ops[i].depends_on = <<>>
  /\ flushResult.ops[1].priority = 5 /\ flushResult.ops[2].priority = 5
  /\ flushResult.ops[1].created_at < flushResult.ops[2].created_at
  /\ flushResult.ops[3].priority = 10
  /\ flushResult.order = <<2, 0, 1>>

(***************************************************************************)
(* IPC bridge, server side: send_request_to_blender                        *)
(* Sender s sends one request without an "id" key, so line 100 gives it a  *)
(* fresh uuid4: request id s.  Dicts are records; str values are strings.  *)
(***************************************************************************)
Tools == {"echo", "fail"}
Params == {[v |-> 1], [v |-> 2]}
BoomMessage == "boom"
QueueMessage == "queue"

TimeoutResponse == [status |-> "error", message |-> "Request timeout"]
KeyErrorRaised == [raised |-> "KeyError"]

\* a timeout path that leaves the entry in the table
DelWaitingKeepsMut(w, id) == w

\* `del waiting_requests[request_id]`
DelWaiting(w, id) == [k \in DOMAIN w \ {id} |-> w[k]]

\* lines 102-110: register the wait under request_id, put the request
SendRequest(s, request_id) ==
  /\ spc[s] = "idle"
  /\ \E t \in Tools, p \in Params :
       LET req == [id |-> request_id, tool |-> t, params |-> p] IN
       /\ sreq' = [sreq EXCEPT ![s] = req]
       /\ REQUEST_QUEUE' = Append(REQUEST_QUEUE, req)
  /\ waiting_requests' = (request_id :> s) @@ waiting_requests
  /\ event' = [event EXCEPT ![s] = FALSE]
  /\ response_container' = [response_container EXCEPT ![s] = NoResponse]
  /\ spc' = [spc EXCEPT ![s] = "wait"]
  /\ UNCHANGED <<RESPONSE_QUEUE, sret, lpc, lresp, unknown, processor_kind, ppc,
                 request, faults, processed>>

\* a request without "id": line 100 tags it with a fresh uuid4, here s
IpcSend(s) ==
  /\ UNCHANGED notIpcVars
  /\ UNCHANGED listener_errors
  /\ SendRequest(s, s)

\* ids a caller can put into the request itself
SuppliedIds == {-1}

\* a request that already has an "id" (the caller's, or the one line 100 put
\* into this dict in an earlier call): line 102 uses it as it is
IpcSendWithId(s) ==
  /\ UNCHANGED notIpcVars
  /\ UNCHANGED listener_errors
  /\ \E id \in SuppliedIds : SendRequest(s, id)

\* line 114: event.wait(timeout=RESPONSE_TIMEOUT) returns False
WaitExpires(s) ==
  /\ UNCHANGED notIpcVars
  /\ UNCHANGED listener_errors
  /\ spc[s] = "wait"
  /\ ~event[s]
  /\ spc' = [spc EXCEPT ![s] = "expired"]
  /\ UNCHANGED <<REQUEST_QUEUE, RESPONSE_QUEUE, waiting_requests, event,
                 response_container, sreq, sret, lpc, lresp, unknown,
                 processor_kind, ppc, request, faults, processed>>

\* lines 115-117: deregister and return the timeout error
TimeoutReturn(s) ==
  /\ UNCHANGED notIpcVars
  /\ UNCHANGED listener_errors
  /\ spc[s] = "expired"
  /\ spc' = [spc EXCEPT ![s] = "done"]
  /\ IF sreq[s].id \in DOMAIN waiting_requests
       THEN /\ waiting_requests' = DelWaiting(waiting_requests, sreq[s].id)
            /\ sret' = [sret EXCEPT ![s] = TimeoutResponse]
       ELSE /\ sret' = [sret EXCEPT ![s] = KeyErrorRaised]
            /\ UNCHANGED waiting_requests
  /\ UNCHANGED <<REQUEST_QUEUE, RESPONSE_QUEUE, event, response_container, sreq,
                 lpc, lresp, unknown, processor_kind, ppc, request, faults,
                 processed>>

\* lines 114, 120-123: the event is set; return what the container holds
WaitReturns(s) ==
  /\ UNCHANGED notIpcVars
  /\ UNCHANGED listener_errors
  /\ spc[s] = "wait"
  /\ event[s]
  /\ spc' = [spc EXCEPT ![s] = "done"]
  /\ IF sreq[s].id \in DOMAIN waiting_requests
       THEN /\ waiting_requests' = DelWaiting(waiting_requests, sreq[s].id)
            /\ sret' = [sret EXCEPT ![s] = response_container[s]]
       ELSE /\ sret' = [sret EXCEPT ![s] = KeyErrorRaised]
            /\ UNCHANGED waiting_requests
  /\ UNCHANGED <<REQUEST_QUEUE, RESPONSE_QUEUE, event, response_container, sreq,
                 lpc, lresp, unknown, processor_kind, ppc, request, faults,
                 processed>>

(***************************************************************************)
(* IPC bridge, server side: the listener thread and                        *)
(* handle_blender_response                                                 *)
(***************************************************************************)
\* ipc.py:76-78 and 132-137: take a response, look its id up
ListenerTake ==
  /\ UNCHANGED notIpcVars
  /\ UNCHANGED listener_errors
  /\ lpc = "idle"
  /\ RESPONSE_QUEUE # <<>>
  /\ RESPONSE_QUEUE' = Tail(RESPONSE_QUEUE)
  /\ IF Head(RESPONSE_QUEUE).id \in DOMAIN waiting_requests
       THEN /\ lpc' = "deliver"
            /\ lresp' = Head(RESPONSE_QUEUE)
            /\ UNCHANGED unknown
       ELSE \* logger.warning, the response is dropped
            /\ unknown' = unknown \cup {Head(RESPONSE_QUEUE).id}
            /\ UNCHANGED <<lpc, lresp>>
  /\ UNCHANGED <<REQUEST_QUEUE, waiting_requests, event, response_container, spc,
                 sreq, sret, processor_kind, ppc, request, faults, processed>>

\* ipc.py:138-140: store the response and set the event; when the entry has
\* gone since line 137 the lookup raises KeyError, which line 79 logs
ListenerDeliver ==
  /\ UNCHANGED notIpcVars
  /\ lpc = "deliver"
  /\ lpc' = "idle"
  /\ lresp' = NoResponse
  /\ IF lresp.id \in DOMAIN waiting_requests
       THEN LET s == waiting_requests[lresp.id] IN
            /\ response_container' = [response_container EXCEPT ![s] = lresp]
            /\ event' = [event EXCEPT ![s] = TRUE]
            /\ UNCHANGED listener_errors
       ELSE /\ listener_errors' = listener_errors \cup {lresp.id}
            /\ UNCHANGED <<response_container, event>>
  /\ UNCHANGED <<REQUEST_QUEUE, RESPONSE_QUEUE, waiting_requests, spc, sreq, sret,
                 unknown, processor_kind, ppc, request, faults, processed>>

(***************************************************************************)
(* Executor side: executor.process_request and the two processing loops    *)
(***************************************************************************)
\* TOOL_HANDLERS[tool_name](params): "echo" returns its params, "fail" raises
handler(tool, params) ==
  IF tool = "echo"
    THEN [raised |-> FALSE, value |-> params]
    ELSE [raised |-> TRUE, message |-> BoomMessage]

\* a process_request that hides the failure of the handler
process_request_swallow_mut(req) == [status |-> "ok"]

\* the fixed text that executor.py:61 puts in front of str(e)
ExecFailedPrefix == "exec failed: "

\* executor.process_request: the handler's result, or an error dict
process_request(req) ==
  LET h == handler(req.tool, req.params) IN
  IF h.raised
    THEN [status |-> "error", message |-> ExecFailedPrefix \o h.message]
    ELSE h.value

\* an envelope that leaves the result out
AddonResponseNoResultMut(req, result) ==
  [id |-> req.id, result |-> NoResponse, error |-> "None"]

\* request_listener.py:160-164
AddonResponse(req, result) ==
  [id |-> req.id, result |-> result, error |-> "None"]

\* ipc.py:175-179
error_response(req, message) ==
  [id |-> req.id, status |-> "error", message |-> message]

\* ipc.py:165-166
EnsureId(response, req) ==
  IF "id" \in DOMAIN response THEN response ELSE ("id" :> req.id) @@ response

Put(req, response, cause) ==
  /\ RESPONSE_QUEUE' = Append(RESPONSE_QUEUE, response)
  /\ processed' = Append(processed,
                         [request |-> req, response |-> response, cause |-> cause])

\* start_request_processor(processor) or request_listener.start()
StartProcessor ==
  /\ UNCHANGED notIpcVars
  /\ UNCHANGED listener_errors
  /\ ppc = "off"
  /\ ppc' = "run"
  /\ processor_kind' \in {"ipc", "addon"}
  /\ UNCHANGED <<REQUEST_QUEUE, RESPONSE_QUEUE, waiting_requests, event,
                 response_container, spc, sreq, sret, lpc, lresp, unknown,
                 request, faults, processed>>

\* request_listener._process_requests, one iteration that finds a request
AddonProcess ==
  /\ UNCHANGED notIpcVars
  /\ UNCHANGED listener_errors
  /\ processor_kind = "addon"
  /\ ppc = "run"
  /\ REQUEST_QUEUE # <<>>
  /\ REQUEST_QUEUE' = Tail(REQUEST_QUEUE)
  /\ request' = Head(REQUEST_QUEUE)
  /\ Put(request', AddonResponse(request', process_request(request')), "handler")
  /\ UNCHANGED <<waiting_requests, event, response_container, spc, sreq, sret,
                 lpc, lresp, unknown, processor_kind, ppc, faults>>

\* ipc._processor_thread, one iteration that finds a request; the processor
\* passed in returns {"result": ...} for the handler's value and lets the
\* handler's exception through
IpcProcess ==
  /\ UNCHANGED notIpcVars
  /\ UNCHANGED listener_errors
  /\ processor_kind = "ipc"
  /\ ppc = "run"
  /\ REQUEST_QUEUE # <<>>
  /\ REQUEST_QUEUE' = Tail(REQUEST_QUEUE)
  /\ request' = Head(REQUEST_QUEUE)
  /\ LET h == handler(request'.tool, request'.params) IN
     IF h.raised
       THEN Put(request', error_response(request', h.message), "handler")
       ELSE Put(request', EnsureId([result |-> h.value], request'), "handler")
  /\ UNCHANGED <<waiting_requests, event, response_container, spc, sreq, sret,
                 lpc, lresp, unknown, processor_kind, ppc, faults>>

\* ipc._processor_thread, one iteration in which REQUEST_QUEUE.empty() or
\* REQUEST_QUEUE.get() raises: the except block at lines 171-180 reads
\* `request`, which is unbound before the first request and otherwise still
\* holds the previous one
QueueFault ==
  /\ UNCHANGED notIpcVars
  /\ UNCHANGED listener_errors
  /\ processor_kind = "ipc"
  /\ ppc = "run"
  /\ faults < MaxFaults
  /\ faults' = faults + 1
  /\ IF request = NoRequest
       THEN /\ ppc' = "crashed"
            /\ UNCHANGED <<RESPONSE_QUEUE, processed>>
       ELSE /\ Put(request, error_response(request, QueueMessage), "fault")
            /\ UNCHANGED ppc
  /\ UNCHANGED <<REQUEST_QUEUE, waiting_requests, event, response_container, spc,
                 sreq, sret, lpc, lresp, unknown, processor_kind, request>>

IpcNext ==
  \/ \E s \in Senders : IpcSend(s) \/ WaitExpires(s) \/ TimeoutReturn(s)
                         \/ WaitReturns(s)
  \/ ListenerTake \/ ListenerDeliver
  \/ StartProcessor \/ AddonProcess \/ IpcProcess

IpcSpec == Init /\ [][IpcNext]_vars

IpcFaultSpec == Init /\ [][IpcNext \/ QueueFault]_vars

\* senders may also pass requests that carry an id
IpcSuppliedNext == \E s \in Senders : IpcSendWithId(s)

IpcSuppliedSpec == Init /\ [][IpcNext \/ IpcSuppliedNext]_vars

(***************************************************************************)
(* addon/request_listener.py: the websocket client inside Blender.         *)
(* websocket-client runs on_message for one frame at a time on its own      *)
(* thread; _process_requests runs on another thread.                        *)
(***************************************************************************)
\* request_listener.start(): _running = True, the processing thread and the
\* websocket client are started
HostStart ==
  /\ UNCHANGED notHostVars
  /\ hpc = "off"
  /\ ppc = "off"
  /\ hpc' = "idle"
  /\ ppc' = "run"
  /\ processor_kind' = "addon"
  /\ UNCHANGED <<REQUEST_QUEUE, RESPONSE_QUEUE, waiting_requests, event,
                 response_container, spc, sreq, sret, lpc, lresp, unknown,
                 request, faults, processed, listener_errors>>
  /\ UNCHANGED <<host_sent, inbound>>

\* the frames the server sends: a request with a fresh id, or a ping
InboundMessages(n) ==
  {[type |-> "request", request |-> [id |-> n, tool |-> t, params |-> p]] :
     t \in Tools, p \in Params}
  \cup {[type |-> "ping"]}

PongMessage == [type |-> "pong"]

\* the frame that carries a response taken from RESPONSE_QUEUE
ResponseMessage(response) == [type |-> "response", response |-> response]

\* _handle_websocket_message up to its `while not ipc.RESPONSE_QUEUE.empty()`
HostReceive ==
  /\ UNCHANGED notHostVars
  /\ hpc = "idle"
  /\ inbound < MaxInbound
  /\ inbound' = inbound + 1
  /\ hpc' = "drain"
  /\ \E msg \in InboundMessages(inbound + 1) :
       IF msg.type = "request"
         THEN /\ REQUEST_QUEUE' = Append(REQUEST_QUEUE, msg.request)
              /\ UNCHANGED host_sent
         ELSE /\ host_sent' = Append(host_sent, PongMessage)
              /\ UNCHANGED REQUEST_QUEUE
  /\ UNCHANGED <<RESPONSE_QUEUE, waiting_requests, event, response_container,
                 spc, sreq, sret, lpc, lresp, unknown, processor_kind, ppc,
                 request, faults, processed, listener_errors>>

\* one turn of the while loop: a response is taken and sent (the connection
\* is open: ws.send returns)
HostDrainSend ==
  /\ UNCHANGED notHostVars
  /\ hpc = "drain"
  /\ RESPONSE_QUEUE # <<>>
  /\ RESPONSE_QUEUE' = Tail(RESPONSE_QUEUE)
  /\ host_sent' = Append(host_sent, ResponseMessage(Head(RESPONSE_QUEUE)))
  /\ UNCHANGED <<hpc, inbound>>
  /\ UNCHANGED <<REQUEST_QUEUE, waiting_requests, event, response_container,
                 spc, sreq, sret, lpc, lresp, unknown, processor_kind, ppc,
                 request, faults, processed, listener_errors>>

\* the while loop finds RESPONSE_QUEUE empty: the handler returns
HostDrainEnd ==
  /\ UNCHANGED notHostVars
  /\ hpc = "drain"
  /\ RESPONSE_QUEUE = <<>>
  /\ hpc' = "idle"
  /\ UNCHANGED <<host_sent, inbound>>
  /\ UNCHANGED ipcVars

HostNext ==
  \/ HostStart \/ HostReceive
  \/ HostDrainSend \/ HostDrainEnd
  \/ AddonProcess

HostSpec == Init /\ [][HostNext]_vars

\* both threads keep running; the server is not obliged to send another frame
HostFairness ==
  /\ WF_vars(AddonProcess)
  /\ WF_vars(HostDrainSend \/ HostDrainEnd)

FairHostSpec == HostSpec /\ HostFairness

(***************************************************************************)
(* Claims about the IPC bridge                                             *)
(***************************************************************************)

\* C13: a request with id X handled by a handler that echoes its params
\* comes back to its sender as a response with id X whose result equals the
\* params that were sent.
C13_RoundTrip ==
  \A s \in Senders :
    (spc[s] = "done" /\ sreq[s].tool = "echo" /\ sret[s] # TimeoutResponse) =>
      /\ "id" \in DOMAIN sret[s]
      /\ "result" \in DOMAIN sret[s]
      /\ sret[s].id = sreq[s].id
      /\ sret[s].result = sreq[s].params

\* both senders got their echoed params back, and the two differ
C13_Witness ==
  /\ \A s \in Senders :
       /\ spc[s] = "done" /\ sreq[s].tool = "echo"
       /\ "result" \in DOMAIN sret[s]
       /\ sret[s].result = sreq[s].params
  /\ sreq[1].params # sreq[2].params

\* C14: every envelope taken from the request queue causes exactly one
\* response envelope with the same id on the response queue.
C14_ExactlyOneResponse ==
  \A id \in Senders :
    Cardinality({i \in 1..Len(processed) : processed[i].response.id = id})
      = Cardinality({i \in 1..Len(processed) :
                      processed[i].cause = "handler" /\ processed[i].request.id = id})

\* C27: an id is not registered again while its waiter is unresolved: a step
\* never replaces the waiter stored in waiting_requests under an id whose
\* event is not set, and send_command never registers an id that is in
\* _response_futures.
C27_IdNotReusedWhilePending ==
  [][/\ \A id \in DOMAIN waiting_requests :
          (~event[waiting_requests[id]] /\ id \in DOMAIN waiting_requests')
            => waiting_requests'[id] = waiting_requests[id]
     /\ \A k \in CallIds :
          (cpc[k] = "new" /\ cpc'[k] = "sending") => k \notin response_futures]_vars

\* C29: with senders that use distinct ids, every send_request_to_blender
\* call returns the response with its own id or the timeout error, and no
\* access to waiting_requests raises: not the del of a sender, not the lookup
\* of handle_blender_response in the listener thread.
C29_ConcurrentSendersIsolated ==
  /\ \A s \in Senders :
       spc[s] = "done" =>
         /\ sret[s] # KeyErrorRaised
         /\ \/ sret[s] = TimeoutResponse
            \/ ("id" \in DOMAIN sret[s] /\ sret[s].id = sreq[s].id)
  /\ listener_errors = {}

\* C15: a send that timed out has removed its id from waiting_requests, and
\* a response whose id is not waited for is logged and dropped: the table,
\* the events and the containers stay as they are and the listener is ready
\* for the next response.
C15_TimeoutDeregisters ==
  /\ [](\A s \in Senders :
          (spc[s] = "done" /\ sret[s] = TimeoutResponse)
            => sreq[s].id \notin DOMAIN waiting_requests)
  /\ [][(/\ lpc = "idle"
         /\ RESPONSE_QUEUE # <<>>
         /\ RESPONSE_QUEUE' = Tail(RESPONSE_QUEUE)
         /\ Head(RESPONSE_QUEUE).id \notin DOMAIN waiting_requests)
        => (/\ waiting_requests' = waiting_requests
            /\ event' = event
            /\ response_container' = response_container
            /\ Head(RESPONSE_QUEUE).id \in unknown'
            /\ lpc' = "idle")]_vars

\* a sender returned the timeout error and the response to its request was
\* dropped afterwards
C15_Witness ==
  \E s \in Senders :
    /\ spc[s] = "done"
    /\ sret[s] = TimeoutResponse
    /\ sreq[s].id \in unknown

ToolNames == {"t1", "t2"}
Categories == {"c1", "c2"}
ToolDefs == [name : ToolNames, category : Categories]

\* position of name in self._tools, 0 when absent
ToolIndex(ts, name) ==
  IF \E i \in 1..Len(ts) : ts[i].name = name
    THEN CHOOSE i \in 1..Len(ts) : ts[i].name = name
    ELSE 0

\* self._tools[tool.name] = tool: a known key keeps its place in the dict
SetTool(ts, tool) ==
  IF ToolIndex(ts, tool.name) # 0
    THEN [ts EXCEPT ![ToolIndex(ts, tool.name)] = tool]
    ELSE Append(ts, tool)

\* list.remove(x): drops the first occurrence
RECURSIVE RemoveFirst(_, _)
RemoveFirst(q, x) ==
  IF q = <<>> THEN <<>>
  ELSE IF Head(q) = x THEN Tail(q)
  ELSE <<Head(q)>> \o RemoveFirst(Tail(q), x)

\* list_tools() without a category: list(self._tools.values())
list_tools == reg_tools

\* list_tools(category): the names of self._categories.get(category, [])
list_tools_names(category) ==
  IF category \in DOMAIN reg_categories THEN reg_categories[category] ELSE <<>>

register_tool(tool) ==
  /\ UNCHANGED notRegVars
  /\ regOps < MaxRegOps
  /\ regOps' = regOps + 1
  /\ reg_tools' = SetTool(reg_tools, tool)
  /\ reg_categories' =
       LET cats == IF tool.category \in DOMAIN reg_categories
                     THEN reg_categories
                     ELSE (tool.category :> <<>>) @@ reg_categories
       IN [cats EXCEPT ![tool.category] = Append(@, tool.name)]
  /\ lastOp' = [kind |-> "register", name |-> tool.name,
                category |-> tool.category,
                same |-> (ToolIndex(reg_tools, tool.name) # 0
                          /\ reg_tools[ToolIndex(reg_tools, tool.name)] = tool)]

unregister_tool(tool_name) ==
  /\ UNCHANGED notRegVars
  /\ regOps < MaxRegOps
  /\ regOps' = regOps + 1
  /\ lastOp' = [kind |-> "unregister", name |-> tool_name, category |-> "",
                same |-> FALSE]
  /\ IF ToolIndex(reg_tools, tool_name) # 0
       THEN LET tool == reg_tools[ToolIndex(reg_tools, tool_name)] IN
            /\ reg_tools' = RemoveAt(reg_tools, ToolIndex(reg_tools, tool_name))
            /\ reg_categories' =
                 [reg_categories EXCEPT ![tool.category] = RemoveFirst(@, tool_name)]
       ELSE UNCHANGED <<reg_tools, reg_categories>>

RegNext ==
  \/ \E tool \in ToolDefs : register_tool(tool)
  \/ \E name \in ToolNames : unregister_tool(name)

RegSpec == Init /\ [][RegNext]_vars

\* C17: after the same ToolDefinition has been registered a second time,
\* list_tools() and list_tools(category) each report that tool exactly once.
C17_RegisterTwiceListsOnce ==
  (lastOp.kind = "register" /\ lastOp.same) =>
    /\ Cardinality({i \in 1..Len(list_tools) : list_tools[i].name = lastOp.name}) = 1
    /\ Cardinality({i \in 1..Len(list_tools_names(lastOp.category)) :
                      list_tools_names(lastOp.category)[i] = lastOp.name}) = 1

\* C37: after any sequence of register_tool and unregister_tool calls the
\* category index agrees with the tool map: every name in a category list is
\* a registered tool of that category and appears once, and every registered
\* tool appears in the list of its category, so list_tools(category) neither
\* fails nor reports an unregistered or duplicated tool.
C37_CategoryIndexAgrees ==
  /\ \A c \in DOMAIN reg_categories :
       \A i \in 1..Len(reg_categories[c]) :
         LET name == reg_categories[c][i] IN
         /\ ToolIndex(reg_tools, name) # 0
         /\ reg_tools[ToolIndex(reg_tools, name)].category = c
         /\ \A j \in 1..Len(reg_categories[c]) :
              reg_categories[c][j] = name => j = i
  /\ \A k \in 1..Len(reg_tools) :
       \E i \in 1..Len(list_tools_names(reg_tools[k].category)) :
         list_tools_names(reg_tools[k].category)[i] = reg_tools[k].name

\* C38: on the host side every response that the request-processing thread
\* puts on the response queue is eventually sent back over the websocket as a
\* 'response' message, without a further inbound websocket message having to
\* arrive first.
C38_ResponseEventuallySent ==
  \A n \in 1..MaxInbound :
    (\E k \in 1..Len(RESPONSE_QUEUE) : RESPONSE_QUEUE[k].id = n)
      ~> (\E k \in 1..Len(host_sent) :
            /\ host_sent[k].type = "response"
            /\ host_sent[k].response.id = n)

(***************************************************************************)
(* server/core.py: one client connection of BlenderMCPServer, with         *)
(* server/auth.py and server/security.py                                   *)
(***************************************************************************)
\* _hash_password(password, salt): distinct inputs give distinct hashes
hash_password(password, salt) == <<password, salt>>

\* self.auth.users after _setup_default_auth
users ==
  [u \in {"admin", "user"} |->
     IF u = "admin"
       THEN [password_hash |-> hash_password("admin123", "salt_a"),
             salt |-> "salt_a", role |-> "admin"]
       ELSE [password_hash |-> hash_password("user123", "salt_u"),
             salt |-> "salt_u", role |-> "user"]]

\* self.auth.permissions after _setup_default_auth, on the commands below
permissions ==
  [r \in {"admin", "user"} |->
     IF r = "user" THEN {"get_scene_info", "create_object"} ELSE {}]

\* self._command_handlers: the commands with a registered handler
command_handlers == {"get_scene_info", "execute_code"}

Commands == {"get_scene_info", "execute_code", "no_such"}

\* (username, password) pairs a client sends; "" is a field left out
Credentials ==
  {<<"admin", "admin123">>, <<"user", "user123">>, <<"user", "admin123">>,
   <<"nobody", "user123">>, <<"user", "">>}

\* params of a command: none, an object name as its characters, or code as
\* its words
CommandParams ==
  {[k \in {} |-> <<>>],
   [object_name |-> <<"a">>],
   [object_name |-> <<"a", ";">>],
   [code |-> <<"import", "os">>]}

\* what json.loads(message) can give
SrvMessages ==
  {[kind |-> "bad_json"], [kind |-> "no_command"]}
  \cup {[kind |-> "authenticate", username |-> c[1], password |-> c[2]] :
          c \in Credentials}
  \cup {[kind |-> "command", command |-> c, params |-> p] :
          c \in Commands, p \in CommandParams}

\* AuthManager.authenticate: the role of the new session, or "" for None
authenticate(username, password) ==
  IF username \notin DOMAIN users THEN ""
  ELSE IF hash_password(password, users[username].salt)
            # users[username].password_hash THEN ""
  ELSE users[username].role

\* AuthManager.validate_session: its result
validate_session(sessions, sid) ==
  sid \in DOMAIN sessions /\ ~sessions[sid].stale

\* AuthManager.validate_session: self.sessions afterwards (an expired
\* session is popped)
SessionsAfterValidate(sessions, sid) ==
  IF sid \in DOMAIN sessions /\ sessions[sid].stale
    THEN [k \in DOMAIN sessions \ {sid} |-> sessions[k]]
    ELSE sessions

\* AuthManager.check_permission
check_permission(sessions, sid, permission) ==
  IF sid \notin DOMAIN sessions THEN FALSE
  ELSE IF sessions[sid].role = "admin" THEN TRUE
  ELSE permission \in permissions[sessions[sid].role]

\* SecurityValidator.validate_object_name on a name given as its characters:
\* the pattern ^[a-zA-Z0-9_\-\.]+$ admits "a" and not ";"
validate_object_name(name) ==
  name # <<>> /\ \A i \in 1..Len(name) : name[i] \in {"a"}

\* SecurityValidator.validate_command; the commands of the model are
\* well-formed names, so the test of the command name passes
validate_command(command_name, params) ==
  /\ ("object_name" \in DOMAIN params => validate_object_name(params.object_name))
  /\ ~(command_name = "execute_code" /\ "code" \in DOMAIN params
         /\ \E i \in 1..(Len(params.code) - 1) :
              params.code[i] = "import" /\ params.code[i + 1] \in {"os", "sys"})

\* AuthManager.logout
logout(sessions, sid) == [k \in DOMAIN sessions \ {sid} |-> sessions[k]]

\* an error response: nothing but the log of the last message changes
SrvError(command_name) ==
  /\ srv_last' = [command |-> command_name, success |-> FALSE, called |-> FALSE,
                  before_auth |-> ~srv_authed]
  /\ UNCHANGED <<srv_calls, srv_authed, srv_created, next_session>>

\* one turn of `async for message in websocket` on message m
SrvHandle(m) ==
  /\ UNCHANGED notSrvVars
  /\ srv_pc = "open"
  /\ srv_msgs < MaxSrvMessages
  /\ srv_msgs' = srv_msgs + 1
  /\ UNCHANGED srv_pc
  /\ IF m.kind \in {"bad_json", "no_command"}
       THEN \* except json.JSONDecodeError / ValueError: an error response
            /\ SrvError("")
            /\ UNCHANGED <<session_id, auth_sessions>>
     ELSE IF m.kind = "authenticate"
       THEN IF m.username = "" \/ m.password = ""
              THEN \* AuthError before authenticate() is called
                   /\ SrvError("authenticate")
                   /\ UNCHANGED <<session_id, auth_sessions>>
            ELSE IF authenticate(m.username, m.password) = ""
              THEN \* session_id was assigned None before the raise
                   /\ session_id' = 0
                   /\ SrvError("authenticate")
                   /\ UNCHANGED auth_sessions
            ELSE /\ session_id' = next_session
                 /\ auth_sessions' =
                      (next_session :>
                         [role |-> authenticate(m.username, m.password),
                          stale |-> FALSE]) @@ auth_sessions
                 /\ next_session' = next_session + 1
                 /\ srv_authed' = TRUE
                 /\ srv_created' = srv_created \cup {next_session}
                 /\ srv_last' = [command |-> "authenticate", success |-> TRUE,
                                 called |-> FALSE, before_auth |-> ~srv_authed]
                 /\ UNCHANGED srv_calls
     ELSE IF session_id = 0
       THEN /\ SrvError(m.command)
            /\ UNCHANGED <<session_id, auth_sessions>>
     ELSE IF ~validate_session(auth_sessions, session_id)
       THEN /\ SrvError(m.command)
            /\ auth_sessions' = SessionsAfterValidate(auth_sessions, session_id)
            /\ UNCHANGED session_id
     ELSE IF \/ ~check_permission(auth_sessions, session_id, m.command)
             \/ ~validate_command(m.command, m.params)
             \/ m.command \notin command_handlers
       THEN /\ SrvError(m.command)
            /\ UNCHANGED <<session_id, auth_sessions>>
     ELSE \* `result = await handler(params)`, which returns or raises
          /\ srv_calls' = srv_calls \cup
               {[command |-> m.command, params |-> m.params,
                 authed |-> srv_authed,
                 live |-> (session_id \in DOMAIN auth_sessions
                           /\ ~auth_sessions[session_id].stale),
                 role |-> IF session_id \in DOMAIN auth_sessions
                            THEN auth_sessions[session_id].role ELSE ""]}
          /\ \E ok \in BOOLEAN :
               srv_last' = [command |-> m.command, success |-> ok,
                            called |-> TRUE, before_auth |-> ~srv_authed]
          /\ UNCHANGED <<session_id, auth_sessions, srv_authed, srv_created,
                         next_session>>

\* more than session_timeout has passed since the last activity of a session
SrvSessionExpires ==
  /\ UNCHANGED notSrvVars
  /\ srv_pc = "open"
  /\ \E sid \in DOMAIN auth_sessions :
       /\ ~auth_sessions[sid].stale
       /\ auth_sessions' = [auth_sessions EXCEPT ![sid].stale = TRUE]
  /\ UNCHANGED <<srv_pc, session_id, next_session, srv_msgs, srv_calls, srv_last,
                 srv_authed, srv_created>>

\* AuthManager.cleanup_sessions, run every five minutes by _cleanup_sessions
SrvCleanup ==
  /\ UNCHANGED notSrvVars
  /\ \E sid \in DOMAIN auth_sessions : auth_sessions[sid].stale
  /\ auth_sessions' = [k \in {sid \in DOMAIN auth_sessions :
                                ~auth_sessions[sid].stale} |-> auth_sessions[k]]
  /\ UNCHANGED <<srv_pc, session_id, next_session, srv_msgs, srv_calls, srv_last,
                 srv_authed, srv_created>>

\* the connection ends: `finally: if session_id: self.auth.logout(session_id)`
SrvClose ==
  /\ UNCHANGED notSrvVars
  /\ srv_pc = "open"
  /\ srv_pc' = "closed"
  /\ auth_sessions' = IF session_id # 0 THEN logout(auth_sessions, session_id)
                      ELSE auth_sessions
  /\ UNCHANGED <<session_id, next_session, srv_msgs, srv_calls, srv_last,
                 srv_authed, srv_created>>

SrvNext ==
  \/ \E m \in SrvMessages : SrvHandle(m)
  \/ SrvSessionExpires
  \/ SrvCleanup
  \/ SrvClose

ServerSpec == Init /\ [][SrvNext]_vars

\* C39: in the per-connection loop a command handler is invoked only after
\* the connection has authenticated and its session is still valid, has
\* permission for the command, and the command passed security validation;
\* every message other than 'authenticate' received before authentication
\* gets an error response and invokes no handler; and the session of the
\* connection (the one of its latest successful authenticate) is logged out
\* when the connection ends.
C39_HandlerOnlyWhenAuthorized ==
  /\ \A call \in srv_calls :
       /\ call.authed /\ call.live
       /\ (call.role = "admin" \/ call.command \in {"get_scene_info", "create_object"})
       /\ ("object_name" \in DOMAIN call.params => call.params.object_name = <<"a">>)
       /\ ~(call.command = "execute_code" /\ "code" \in DOMAIN call.params
              /\ call.params.code = <<"import", "os">>)
  /\ (srv_last.before_auth /\ srv_last.command # "authenticate")
       => (~srv_last.success /\ ~srv_last.called)
  /\ (srv_pc = "closed" /\ srv_created # {})
       => (CHOOSE sid \in srv_created : \A other \in srv_created : other <= sid)
            \notin DOMAIN auth_sessions

====
